---- MODULE Spec2Model ----
(***************************************************************************)
(* PostgreSQL upgrader: volume-selection validation                        *)
(* (ServiceConfig.is_configured_for_postgres_upgrade), the backup volume   *)
(* mount verifier (DockerManager.verify_backup_volume_mounted), the        *)
(* upgrade workflow (Postgres.handle_upgrade_command) with its integrity   *)
(* verifier (Postgres._verify_upgrade_success), the tail of the import     *)
(* workflow (Postgres._import_workflow_with_container), the lifecycle      *)
(* operations of DockerManager called directly, and single calls of its    *)
(* client-using operations (SpecCalls).                                    *)
(*                                                                         *)
(* Paths are sequences of tokens: "/" is one token and every other token   *)
(* is a path-segment name without "/".  No segment name is a prefix of     *)
(* another, so equality, rstrip("/") and startswith(p + "/") on the token  *)
(* sequences agree with the same operations on the Python strings.         *)
(* A path of None and the empty path are both the empty sequence: the      *)
(* code reads a path only through `path or ""` and `not path`.             *)
(***************************************************************************)
EXTENDS Integers, Sequences, FiniteSets, TLC

VARIABLES
    selected_main_volume,    \* ServiceConfig.selected_main_volume: {} is None, {v} a VolumeMount
    selected_backup_volume,  \* ServiceConfig.selected_backup_volume
    validation,              \* outcome of the last is_configured_for_postgres_upgrade call
    pc,                      \* position inside verify_backup_volume_mounted
    sleep,                   \* argument sleep of the running call
    timeout,                 \* argument timeout of the running call
    max_retries,             \* int(timeout // sleep)
    attempt,                 \* loop variable of `for attempt in range(max_retries)`
    container,               \* container handle the loop currently holds
    mounts,                  \* Destinations of container.attrs["Mounts"] at the last health check
    ls_exit_code,            \* exit code of `ls -la <path>` at the last health check
    check_result,            \* outcome of the last attempt's try block
    error,                   \* the exception that left the call, "none" while there is none
    sleep_calls,             \* number of time.sleep calls made during the call
    log,                     \* the external calls made during the call, in order
    wpc,                     \* position of handle_upgrade_command in its step list
    steps,                   \* the calls made on the manager so far, each with its result
    commands,                \* the external commands run so far, in order
    werror,                  \* the exception that ended the run, "none" while there is none
    original_stats,          \* get_database_statistics before the backup
    backup_stats,            \* result of verify_backup_integrity
    current_stats,           \* get_database_statistics after the import
    verification_result,     \* result of _verify_upgrade_success
    completed,               \* the completed-successfully message was printed
    client,                  \* DockerManager.client: "None", "open" or "closed"
    call,                    \* the function called on its own, with its arguments
    call_result              \* what that call returned or raised

vars == <<selected_main_volume, selected_backup_volume, validation, pc, sleep,
          timeout, max_retries, attempt, container, mounts, ls_exit_code,
          check_result, error, sleep_calls, log, wpc, steps, commands, werror,
          original_stats, backup_stats, current_stats, verification_result,
          completed, client, call, call_result>>

workflow_vars == <<wpc, steps, commands, werror, original_stats, backup_stats,
                   current_stats, verification_result, completed, client, call,
                   call_result>>

manager_vars == <<client, call, call_result>>

verifier_vars == <<pc, sleep, timeout, max_retries, attempt, container, mounts,
                   ls_exit_code, check_result, error, sleep_calls, log>>

-----------------------------------------------------------------------------
(* Bounds of the model *)

MaxTrailingSlashes == 1
MaxSleep == 2
MaxTimeout == 5

-----------------------------------------------------------------------------
(* Paths and volumes *)

None == {}

Slash == "/"

PG_DATA == <<"/", "var", "/", "lib", "/", "postgresql", "/", "data">>

PG_HOME == <<"/", "var", "/", "lib", "/", "postgresql">>

BACKUPS == <<"/", "var", "/", "lib", "/", "postgresql", "/", "backups">>

ChildX == <<"/", "x">>

RECURSIVE Slashes(_)
Slashes(n) == IF n = 0 THEN <<>> ELSE <<Slash>> \o Slashes(n - 1)

BasePaths == {<<>>, <<"/", "custom">>, PG_HOME, PG_DATA, BACKUPS}

\* every base path, with up to MaxTrailingSlashes trailing slashes, optionally
\* followed by the child "/x", again with up to MaxTrailingSlashes slashes
Paths ==
    {b \o Slashes(j) \o c \o Slashes(k) :
        b \in BasePaths, j \in 0..MaxTrailingSlashes,
        c \in {<<>>, ChildX}, k \in 0..MaxTrailingSlashes}

VolumeNames == {"database", "backups"}

\* VolumeMount.resolved_name; the empty string is a name that did not resolve
ResolvedNames == {"", "test_database", "test_backups"}

VolumeMount == [name : VolumeNames, path : Paths, resolved_name : ResolvedNames]

\* str.rstrip("/")
RECURSIVE RStrip(_)
RStrip(s) ==
    IF s = <<>> THEN s
    ELSE IF s[Len(s)] = Slash THEN RStrip(SubSeq(s, 1, Len(s) - 1))
    ELSE s

\* str.startswith(prefix)
StartsWith(s, prefix) ==
    /\ Len(prefix) <= Len(s)
    /\ SubSeq(s, 1, Len(prefix)) = prefix

\* mutants of is_configured_for_postgres_upgrade
IsConfiguredNoNameCheck(main, backup) ==
    IF main = None \/ backup = None THEN "false"
    ELSE LET m == CHOOSE v \in main : TRUE
             b == CHOOSE v \in backup : TRUE
             main_path == RStrip(m.path)
             backup_path == RStrip(b.path)
         IN  IF backup_path = PG_DATA THEN "raise"
             ELSE IF StartsWith(backup_path, main_path \o <<Slash>>)
                     \/ backup_path = main_path THEN "false"
             ELSE "true"

IsConfiguredDataDirCheckLast(main, backup) ==
    IF main = None \/ backup = None THEN "false"
    ELSE LET m == CHOOSE v \in main : TRUE
             b == CHOOSE v \in backup : TRUE
             main_path == RStrip(m.path)
             backup_path == RStrip(b.path)
         IN  IF m.name = b.name THEN "false"
             ELSE IF StartsWith(backup_path, main_path \o <<Slash>>)
                     \/ backup_path = main_path THEN "false"
             ELSE IF backup_path = PG_DATA THEN "raise"
             ELSE "true"

IsConfiguredNoStrip(main, backup) ==
    IF main = None \/ backup = None THEN "false"
    ELSE LET m == CHOOSE v \in main : TRUE
             b == CHOOSE v \in backup : TRUE
         IN  IF m.name = b.name THEN "false"
             ELSE IF b.path = PG_DATA THEN "raise"
             ELSE IF StartsWith(b.path, m.path \o <<Slash>>)
                     \/ b.path = m.path THEN "false"
             ELSE "true"

IsConfiguredNestedEitherWay(main, backup) ==
    IF main = None \/ backup = None THEN "false"
    ELSE LET m == CHOOSE v \in main : TRUE
             b == CHOOSE v \in backup : TRUE
             main_path == RStrip(m.path)
             backup_path == RStrip(b.path)
         IN  IF m.name = b.name THEN "false"
             ELSE IF backup_path = PG_DATA THEN "raise"
             ELSE IF StartsWith(backup_path, main_path \o <<Slash>>)
                     \/ StartsWith(main_path, backup_path \o <<Slash>>)
                     \/ backup_path = main_path THEN "false"
             ELSE "true"

\* ServiceConfig.is_configured_for_postgres_upgrade: "true", "false", or
\* "raise" for the 'default PostgreSQL data directory' exception
is_configured_for_postgres_upgrade(main, backup) ==
    IF main = None \/ backup = None THEN "false"
    ELSE LET m == CHOOSE v \in main : TRUE
             b == CHOOSE v \in backup : TRUE
             main_path == RStrip(m.path)
             backup_path == RStrip(b.path)
         IN  IF m.name = b.name THEN "false"
             ELSE IF backup_path = PG_DATA THEN "raise"
             ELSE IF StartsWith(backup_path, main_path \o <<Slash>>)
                     \/ backup_path = main_path THEN "false"
             ELSE "true"

-----------------------------------------------------------------------------
(* The verifier's variables while no verify call is modelled *)

VerifierIdle ==
    /\ pc = "idle"
    /\ sleep = 0
    /\ timeout = 0
    /\ max_retries = 0
    /\ attempt = 0
    /\ container = "none"
    /\ mounts = {}
    /\ ls_exit_code = 0
    /\ check_result = "none"
    /\ error = "none"
    /\ sleep_calls = 0
    /\ log = <<>>

\* a statistics or result variable that has not been assigned
NoValue == [none |-> TRUE]

(* The workflow's variables while no workflow is modelled *)

WorkflowIdle ==
    /\ wpc = 0
    /\ steps = <<>>
    /\ commands = <<>>
    /\ werror = "none"
    /\ original_stats = NoValue
    /\ backup_stats = NoValue
    /\ current_stats = NoValue
    /\ verification_result = NoValue
    /\ completed = FALSE
    /\ client = "None"
    /\ call = NoValue
    /\ call_result = NoValue

-----------------------------------------------------------------------------
(* Specification of the volume selection and its validation *)

\* ServiceConfig(name=...): nothing selected
InitValidate ==
    /\ selected_main_volume = None
    /\ selected_backup_volume = None
    /\ validation = "none"
    /\ VerifierIdle
    /\ WorkflowIdle

\* ServiceConfig.select_volumes(main_volume, backup_volume)
select_volumes ==
    /\ validation = "none"
    /\ selected_main_volume = None
    /\ selected_backup_volume = None
    /\ \E m \in VolumeMount, b \in VolumeMount :
          /\ selected_main_volume' = {m}
          /\ selected_backup_volume' = {b}
    /\ UNCHANGED <<validation, verifier_vars>>
    /\ UNCHANGED workflow_vars

\* service.selected_main_volume = main_vol, the backup volume left as it is
assign_selected_main_volume ==
    /\ validation = "none"
    /\ selected_main_volume = None
    /\ \E m \in VolumeMount : selected_main_volume' = {m}
    /\ UNCHANGED <<selected_backup_volume, validation, verifier_vars>>
    /\ UNCHANGED workflow_vars

\* service.selected_backup_volume = backup_vol, the main volume left as it is
assign_selected_backup_volume ==
    /\ validation = "none"
    /\ selected_backup_volume = None
    /\ \E b \in VolumeMount : selected_backup_volume' = {b}
    /\ UNCHANGED <<selected_main_volume, validation, verifier_vars>>
    /\ UNCHANGED workflow_vars

\* a call of service.is_configured_for_postgres_upgrade()
Validate ==
    /\ validation = "none"
    /\ validation' = is_configured_for_postgres_upgrade(
                         selected_main_volume, selected_backup_volume)
    /\ UNCHANGED <<selected_main_volume, selected_backup_volume, verifier_vars>>
    /\ UNCHANGED workflow_vars

NextValidate ==
    \/ select_volumes
    \/ assign_selected_main_volume
    \/ assign_selected_backup_volume
    \/ Validate

SpecValidate == InitValidate /\ [][NextValidate]_vars

-----------------------------------------------------------------------------
(* The backup volume mount verifier, DockerManager.verify_backup_volume_mounted *)

\* check_container_status(container, sleep=5, timeout=30)
CheckStatusSleep == 5

CheckStatusTimeout == 30

\* the handle the caller passes in, and the one find_container_by_service
\* returns inside start_service_container
CallerHandle == "caller"

RestartedHandle == "restarted"

\* container.attrs["Mounts"]: the Destination of each entry
MountLists == SUBSET {PG_DATA, BACKUPS}

\* exit codes of `ls -la <path>`
ExitCodes == {0, 1, 2}

\* the (main, backup) selections a verify call is made with: a valid one, none
\* selected, a backup volume without a path, the data directory as backup
MountConfigs ==
    { <<{[name |-> "database", path |-> PG_DATA, resolved_name |-> "test_database"]},
        {[name |-> "backups", path |-> BACKUPS, resolved_name |-> "test_backups"]}>>,
      <<None, None>>,
      <<{[name |-> "database", path |-> PG_DATA, resolved_name |-> "test_database"]},
        {[name |-> "backups", path |-> <<>>, resolved_name |-> "test_backups"]}>>,
      <<{[name |-> "database", path |-> <<"/", "custom">>,
          resolved_name |-> "test_database"]},
        {[name |-> "backups", path |-> PG_DATA, resolved_name |-> "test_backups"]}>> }

Event(e) == [ev |-> e, handle |-> container, attempt |-> attempt]

\* max_retries = int(timeout // sleep)
MaxRetriesOf(t, s) == t \div s

HalfwayAttemptThird(n) == n \div 3

\* attempt == max_retries // 2
HalfwayAttempt(n) == n \div 2

\* `for attempt in range(max_retries)`: the next iteration, or the end of the
\* loop, after which the function returns None
LoopHeadOneMore(a, n) == IF a <= n THEN "check" ELSE "returned"

LoopHead(a, n) == IF a < n THEN "check" ELSE "returned"

CheckBackupVolumeHealthMountOnly(ms, backup, exit_code) ==
    IF backup = None THEN FALSE
    ELSE LET b == CHOOSE v \in backup : TRUE
         IN  IF b.path = <<>> THEN FALSE
             ELSE \E m \in ms : m = b.path

\* DockerManager._check_backup_volume_health
_check_backup_volume_health(ms, backup, exit_code) ==
    IF backup = None THEN FALSE
    ELSE LET b == CHOOSE v \in backup : TRUE
             mount_found == \E m \in ms : m = b.path
         IN  IF b.path = <<>> THEN FALSE
             ELSE exit_code = 0 /\ mount_found

AfterTryRemediatesFromHalfway(result, a, n) ==
    IF result = "healthy" THEN "returned"
    ELSE IF a >= HalfwayAttempt(n) THEN "reconnect"
    ELSE "tail"

AfterTryNeverReturns(result, a, n) ==
    IF a = HalfwayAttempt(n) THEN "reconnect" ELSE "tail"

\* where the loop body goes after its try block: `return` when healthy, else
\* the halfway branch or the tail of the body
AfterTry(result, a, n) ==
    IF result = "healthy" THEN "returned"
    ELSE IF a = HalfwayAttempt(n) THEN "reconnect"
    ELSE "tail"

ContainerKept(old, new) == old

\* container = self.start_service_container()
ContainerAfterRestart(old, new) == new

InitMount ==
    /\ \E c \in MountConfigs :
          /\ selected_main_volume = c[1]
          /\ selected_backup_volume = c[2]
    /\ validation = "none"
    /\ VerifierIdle
    /\ WorkflowIdle

\* the call and its two configuration guards, up to the first loop iteration
verify_backup_volume_mounted ==
    /\ pc = "idle"
    /\ \E s \in 1..MaxSleep, t \in 0..MaxTimeout :
          LET v == is_configured_for_postgres_upgrade(
                       selected_main_volume, selected_backup_volume)
              no_path == (CHOOSE b \in selected_backup_volume : TRUE).path = <<>>
          IN  /\ validation' = v
              /\ sleep' = s
              /\ timeout' = t
              /\ IF v = "raise"
                 THEN /\ pc' = "raised"
                      /\ error' = "DataDirectoryAsBackup"
                      /\ max_retries' = 0
                 ELSE IF v = "false"
                 THEN /\ pc' = "raised"
                      /\ error' = "NotConfigured"
                      /\ max_retries' = 0
                 ELSE IF no_path
                 THEN /\ pc' = "raised"
                      /\ error' = "BackupDirectoryNotFound"
                      /\ max_retries' = 0
                 ELSE /\ max_retries' = MaxRetriesOf(t, s)
                      /\ pc' = LoopHead(0, max_retries')
                      /\ error' = "none"
    /\ container' = CallerHandle
    /\ attempt' = 0
    /\ UNCHANGED <<selected_main_volume, selected_backup_volume, mounts,
                   ls_exit_code, check_result, sleep_calls, log>>
    /\ UNCHANGED workflow_vars

CheckAttemptPropagating ==
    /\ pc = "check"
    /\ \/ /\ check_result' = "reload_error"
          /\ log' = Append(log, Event("reload_failed"))
          /\ pc' = "raised"
          /\ error' = "ReloadFailed"
          /\ UNCHANGED <<mounts, ls_exit_code>>
       \/ \E ms \in MountLists :
             /\ mounts' = ms
             /\ check_result' = "exec_error"
             /\ log' = Append(log, Event("check_error"))
             /\ pc' = "raised"
             /\ error' = "ExecFailed"
             /\ UNCHANGED ls_exit_code
       \/ \E ms \in MountLists, ec \in ExitCodes :
             /\ mounts' = ms
             /\ ls_exit_code' = ec
             /\ check_result' =
                   IF _check_backup_volume_health(ms, selected_backup_volume, ec)
                   THEN "healthy" ELSE "unhealthy"
             /\ log' = Append(log, Event("check_" \o check_result'))
             /\ pc' = AfterTry(check_result', attempt, max_retries)
             /\ error' = error
    /\ UNCHANGED <<selected_main_volume, selected_backup_volume, validation,
                   sleep, timeout, max_retries, attempt, container,
                   sleep_calls>>
    /\ UNCHANGED workflow_vars

\* the try block of one attempt: container.reload() and the health check;
\* an exception of either is swallowed
check_attempt ==
    /\ pc = "check"
    /\ \/ /\ check_result' = "reload_error"
          /\ log' = Append(log, Event("reload_failed"))
          /\ UNCHANGED <<mounts, ls_exit_code>>
       \/ \E ms \in MountLists :
             /\ mounts' = ms
             /\ check_result' = "exec_error"
             /\ log' = Append(log, Event("check_error"))
             /\ UNCHANGED ls_exit_code
       \/ \E ms \in MountLists, ec \in ExitCodes :
             /\ mounts' = ms
             /\ ls_exit_code' = ec
             /\ check_result' =
                   IF _check_backup_volume_health(ms, selected_backup_volume, ec)
                   THEN "healthy" ELSE "unhealthy"
             /\ log' = Append(log, Event("check_" \o check_result'))
    /\ pc' = AfterTry(check_result', attempt, max_retries)
    /\ UNCHANGED <<selected_main_volume, selected_backup_volume, validation,
                   sleep, timeout, max_retries, attempt, container, error,
                   sleep_calls>>
    /\ UNCHANGED workflow_vars

\* the halfway attempt: self._force_volume_reconnect(container, backup_volume),
\* then sleep and continue, or on its exception the restart
force_volume_reconnect ==
    /\ pc = "reconnect"
    /\ \/ /\ log' = log \o <<Event("reconnect_ok"), Event("sleep")>>
          /\ sleep_calls' = sleep_calls + 1
          /\ attempt' = attempt + 1
          /\ pc' = LoopHead(attempt + 1, max_retries)
       \/ /\ log' = Append(log, Event("reconnect_failed"))
          /\ pc' = "stop"
          /\ UNCHANGED <<sleep_calls, attempt>>
    /\ UNCHANGED <<selected_main_volume, selected_backup_volume, validation,
                   sleep, timeout, max_retries, container, mounts,
                   ls_exit_code, check_result, error>>
    /\ UNCHANGED workflow_vars

\* self.stop_service_container() inside the fallback: a failed `docker compose
\* stop` is re-raised as a plain Exception, which the enclosing
\* `except subprocess.CalledProcessError` does not catch
stop_service_container ==
    /\ pc = "stop"
    /\ \/ /\ log' = Append(log, Event("stop"))
          /\ pc' = "start"
          /\ error' = error
       \/ /\ log' = Append(log, Event("stop_failed"))
          /\ pc' = "raised"
          /\ error' = "StopFailed"
    /\ UNCHANGED <<selected_main_volume, selected_backup_volume, validation,
                   sleep, timeout, max_retries, attempt, container, mounts,
                   ls_exit_code, check_result, sleep_calls>>
    /\ UNCHANGED workflow_vars

\* container = self.start_service_container(), then sleep and continue:
\* `docker compose up -d`, find_container_by_service, and check_container_status
\* (whose result is discarded and which sleeps between its polls)
start_service_container ==
    /\ pc = "start"
    /\ \/ /\ log' = Append(log, Event("up_failed"))
          /\ pc' = "raised"
          /\ error' = "UpFailed"
          /\ UNCHANGED <<container, attempt, sleep_calls>>
       \/ \E e \in {"NoContainers", "MultipleContainers"} :
             /\ log' = log \o <<Event("up"), Event("find_failed")>>
             /\ pc' = "raised"
             /\ error' = e
             /\ UNCHANGED <<container, attempt, sleep_calls>>
       \/ \E polls \in 1..(CheckStatusTimeout \div CheckStatusSleep) :
             /\ container' = ContainerAfterRestart(container, RestartedHandle)
             /\ log' = log \o <<Event("up"), Event("sleep")>>
             /\ sleep_calls' = sleep_calls + (polls - 1) + 1
             /\ attempt' = attempt + 1
             /\ pc' = LoopHead(attempt + 1, max_retries)
             /\ error' = error
    /\ UNCHANGED <<selected_main_volume, selected_backup_volume, validation,
                   sleep, timeout, max_retries, mounts, ls_exit_code,
                   check_result>>
    /\ UNCHANGED workflow_vars

\* the tail of the loop body: sleep unless this was the last attempt, in which
\* case the mount error is raised
sleep_or_raise ==
    /\ pc = "tail"
    /\ IF attempt < max_retries - 1
       THEN /\ log' = Append(log, Event("sleep"))
            /\ sleep_calls' = sleep_calls + 1
            /\ attempt' = attempt + 1
            /\ pc' = LoopHead(attempt + 1, max_retries)
            /\ error' = error
       ELSE /\ pc' = "raised"
            /\ error' = "BackupVolumeFailedToMount"
            /\ UNCHANGED <<log, sleep_calls, attempt>>
    /\ UNCHANGED <<selected_main_volume, selected_backup_volume, validation,
                   sleep, timeout, max_retries, container, mounts,
                   ls_exit_code, check_result>>
    /\ UNCHANGED workflow_vars

NextMount ==
    \/ verify_backup_volume_mounted
    \/ check_attempt
    \/ force_volume_reconnect
    \/ stop_service_container
    \/ start_service_container
    \/ sleep_or_raise

SpecMount == InitMount /\ [][NextMount]_vars

\* every external call of the verifier returns, so the call keeps stepping
SpecMountLive == SpecMount /\ WF_vars(NextMount)

-----------------------------------------------------------------------------
(* The integrity verifier, Postgres._verify_upgrade_success *)

MaxTables == 3
MaxRows == 1

\* MIN_BACKUP_SIZE_BYTES of _verify_upgrade_success
MIN_BACKUP_SIZE_BYTES == 1000

\* what get_database_statistics returns; database_size and database_name are
\* display strings that no rule reads
DatabaseStats == [table_count : 0..MaxTables, estimated_total_rows : 0..MaxRows]

\* sizes a non-empty backup file can have, around the verifier's threshold
BackupSizes == {1, MIN_BACKUP_SIZE_BYTES - 1, MIN_BACKUP_SIZE_BYTES,
                MIN_BACKUP_SIZE_BYTES + 1}

\* what verify_backup_integrity returns; has_valid_header is always True and
\* backup_path is the path it was given
BackupStats == [file_size_bytes : BackupSizes, estimated_table_count : 0..MaxTables]

Abs(n) == IF n < 0 THEN -n ELSE n

TableCountMismatchExact(original_tables, current_tables) ==
    original_tables # current_tables

\* abs(original_tables - current_tables) > 1
TableCountMismatch(original_tables, current_tables) ==
    Abs(original_tables - current_tables) > 1

\* verification_warnings.append(w) when the rule's condition holds
Warning(condition, w) == IF condition THEN <<w>> ELSE <<>>

VerifyUpgradeSuccessFirstRuleWins(original, current, backup) ==
    LET warnings ==
            IF current.table_count = 0 THEN <<"NoTables">>
            ELSE IF TableCountMismatch(original.table_count, current.table_count)
            THEN <<"TableCountMismatch">>
            ELSE IF original.table_count > 0 /\ backup.estimated_table_count = 0
            THEN <<"BackupWithoutTables">>
            ELSE IF original.table_count > 0
                    /\ backup.file_size_bytes < MIN_BACKUP_SIZE_BYTES
            THEN <<"BackupTooSmall">>
            ELSE IF current.estimated_total_rows = 0
                    /\ original.estimated_total_rows > 0
            THEN <<"NoRows">>
            ELSE <<>>
    IN  [success |-> warnings = <<>>, warnings |-> warnings]

_verify_upgrade_success(original, current, backup) ==
    LET original_tables == original.table_count
        current_tables == current.table_count
        backup_table_count == backup.estimated_table_count
        backup_size == backup.file_size_bytes
        no_tables == current.table_count = 0
        mismatch == TableCountMismatch(original_tables, current_tables)
        no_definitions == original_tables > 0 /\ backup_table_count = 0
        too_small == original_tables > 0 /\ backup_size < MIN_BACKUP_SIZE_BYTES
        no_rows == current.estimated_total_rows = 0
                   /\ original.estimated_total_rows > 0
    IN  [success |-> ~(no_tables \/ mismatch \/ no_definitions \/ too_small
                       \/ no_rows),
         warnings |-> Warning(no_tables, "NoTables")
                      \o Warning(mismatch, "TableCountMismatch")
                      \o Warning(no_definitions, "BackupWithoutTables")
                      \o Warning(too_small, "BackupTooSmall")
                      \o Warning(no_rows, "NoRows")]

-----------------------------------------------------------------------------
(* Specification of the upgrade workflow, Postgres.handle_upgrade_command *)

\* the selections the workflow is run with: a valid one, one whose main volume
\* has no resolved name, nothing selected, one volume selected twice, the data
\* directory as backup location, a backup location inside the main volume,
\* and two compose volumes that resolve to one Docker volume
UpgradeConfigs ==
    { <<{[name |-> "database", path |-> PG_DATA, resolved_name |-> "test_database"]},
        {[name |-> "backups", path |-> BACKUPS, resolved_name |-> "test_backups"]}>>,
      <<{[name |-> "database", path |-> PG_DATA, resolved_name |-> ""]},
        {[name |-> "backups", path |-> BACKUPS, resolved_name |-> "test_backups"]}>>,
      <<None, None>>,
      <<{[name |-> "database", path |-> PG_DATA, resolved_name |-> "test_database"]},
        {[name |-> "database", path |-> PG_DATA, resolved_name |-> "test_database"]}>>,
      <<{[name |-> "database", path |-> <<"/", "custom">>,
          resolved_name |-> "test_database"]},
        {[name |-> "backups", path |-> PG_DATA, resolved_name |-> "test_backups"]}>>,
      <<{[name |-> "database", path |-> PG_HOME, resolved_name |-> "test_database"]},
        {[name |-> "backups", path |-> BACKUPS, resolved_name |-> "test_backups"]}>>,
      <<{[name |-> "database", path |-> PG_DATA, resolved_name |-> "test_database"]},
        {[name |-> "backups", path |-> BACKUPS, resolved_name |-> "test_database"]}>> }

UpgradeOrderVolumeRemovedFirst ==
    << "is_configured_for_postgres_upgrade", "__enter__",
       "remove_service_main_volume", "find_container_by_service",
       "get_database_statistics:original", "create_postgres_backup",
       "verify_backup_integrity", "stop_service_container",
       "remove_service_container", "update_service_container",
       "build_service_container", "start_service_container",
       "verify_backup_volume_mounted", "import_data_from_backup",
       "update_collation_version", "get_database_statistics:current",
       "_verify_upgrade_success" >>

\* the calls of handle_upgrade_command, _create_backup_workflow and
\* _import_workflow in program order
UpgradeOrder ==
    << "is_configured_for_postgres_upgrade",
       "__enter__",
       "find_container_by_service",
       "get_database_statistics:original",
       "create_postgres_backup",
       "verify_backup_integrity",
       "stop_service_container",
       "remove_service_container",
       "update_service_container",
       "build_service_container",
       "remove_service_main_volume",
       "start_service_container",
       "verify_backup_volume_mounted",
       "import_data_from_backup",
       "update_collation_version",
       "get_database_statistics:current",
       "_verify_upgrade_success" >>

\* the calls of _import_workflow_with_container, the tail of the import
\* command, in program order
ImportOrder ==
    << "verify_backup_volume_mounted", "import_data_from_backup",
       "update_collation_version", "get_database_statistics:current" >>

\* the positions of the import workflow follow those of the upgrade workflow
ImportBase == Len(UpgradeOrder) + 1

\* the workflow is about to make the call n
AtStep(n) ==
    \/ wpc \in DOMAIN UpgradeOrder /\ UpgradeOrder[wpc] = n
    \/ /\ wpc - ImportBase \in DOMAIN ImportOrder
       /\ ImportOrder[wpc - ImportBase] = n

AfterStepIgnoringFailure(p, result) == p + 1

AfterStepRetrying(p, result) == IF result = "returned" THEN p + 1 ELSE p

\* a call that returns is followed by the next one; an exception leaves
\* handle_upgrade_command (position 0)
AfterStep(p, result) == IF result = "returned" THEN p + 1 ELSE 0

ContextLeftNormallyOnly(p) == p = Len(UpgradeOrder) + 1

\* the `with DockerManager(...)` block has been left: by an exception or by
\* running past its last statement
ContextLeft(p) ==
    \/ p = 0
    \/ p = Len(UpgradeOrder) + 1
    \/ p = ImportBase + Len(ImportOrder) + 1

Command(c, a) == [cmd |-> c, arg |-> a]

\* the call n returned; a call made outside the workflow (position 0) leaves
\* the position alone
Returned(n) ==
    /\ steps' = Append(steps, [name |-> n, result |-> "returned"])
    /\ wpc' = IF wpc = 0 THEN 0 ELSE AfterStep(wpc, "returned")
    /\ werror' = werror

\* the call n raised e
Raised(n, e) ==
    /\ steps' = Append(steps, [name |-> n, result |-> "raised"])
    /\ wpc' = IF wpc = 0 THEN 0 ELSE AfterStep(wpc, "raised")
    /\ werror' = IF werror = "none" THEN e ELSE werror

\* the exceptions of find_container_by_service
FindErrors == {"NoContainers", "MultipleContainers"}

\* the exception of the `if not ...is_configured_for_postgres_upgrade()` guard
\* that opens several calls, "none" when the guard lets the call go on
ConfigurationGuard(main, backup) ==
    LET v == is_configured_for_postgres_upgrade(main, backup)
    IN  IF v = "raise" THEN "DataDirectoryAsBackup"
        ELSE IF v = "false" THEN "NotConfigured"
        ELSE "none"

RemoveMainVolumeGuardNameUnchecked(main, backup) == ConfigurationGuard(main, backup)

\* the guards of remove_service_main_volume
RemoveMainVolumeGuard(main, backup) ==
    IF ConfigurationGuard(main, backup) # "none"
    THEN ConfigurationGuard(main, backup)
    ELSE IF main = None \/ (CHOOSE v \in main : TRUE).resolved_name = ""
    THEN "MainVolumeUnresolved"
    ELSE "none"

\* the argument of `docker volume rm`
VolumeToRemove(main) == (CHOOSE v \in main : TRUE).resolved_name

StatusIgnored(status_ok) == TRUE

\* `if status_ok is False: raise` of import_data_from_backup
StatusAllowsImport(status_ok) == status_ok # "false"

VerificationNeverFatal(success) == FALSE

VerificationAlwaysFatal(success) == TRUE

\* `if verification_result["success"] is False: raise` of handle_upgrade_command
VerificationIsFatal(success) == success = FALSE

\* the outcomes of verify_backup_volume_mounted(container) with its default
\* sleep=3, timeout=30, i.e. ten attempts with the remediation at the sixth
MountOutcomes == {"healthy_first_attempt", "healthy_after_retry",
                  "healthy_after_restart", "BackupVolumeFailedToMount",
                  "StopFailed", "UpFailed"}

InitUpgrade ==
    /\ \E c \in UpgradeConfigs :
          /\ selected_main_volume = c[1]
          /\ selected_backup_volume = c[2]
    /\ validation = "none"
    /\ VerifierIdle
    /\ wpc = 1
    /\ steps = <<>>
    /\ commands = <<>>
    /\ werror = "none"
    /\ original_stats = NoValue
    /\ backup_stats = NoValue
    /\ current_stats = NoValue
    /\ verification_result = NoValue
    /\ completed = FALSE
    /\ client = "None"
    /\ call = NoValue
    /\ call_result = NoValue

\* postgres.py:147, the validation that precedes the DockerManager
upgrade_is_configured_for_postgres_upgrade ==
    /\ AtStep("is_configured_for_postgres_upgrade")
    /\ validation' = is_configured_for_postgres_upgrade(
                         selected_main_volume, selected_backup_volume)
    /\ LET e == ConfigurationGuard(selected_main_volume, selected_backup_volume)
       IN  IF e # "none"
           THEN Raised("is_configured_for_postgres_upgrade", e)
           ELSE Returned("is_configured_for_postgres_upgrade")
    /\ UNCHANGED <<selected_main_volume, selected_backup_volume, verifier_vars, manager_vars,
                   commands, original_stats, backup_stats, current_stats,
                   verification_result, completed>>

\* DockerManager.__enter__ at the head of the with statement:
\* self.client = docker.from_env(), which raises when no daemon is reachable
upgrade_enter ==
    /\ AtStep("__enter__")
    /\ \/ /\ commands' = Append(commands, Command("docker.from_env", "failed"))
          /\ Raised("__enter__", "DockerUnavailable")
          /\ client' = client
       \/ /\ commands' = Append(commands, Command("docker.from_env", "ok"))
          /\ Returned("__enter__")
          /\ client' = "open"
    /\ UNCHANGED <<selected_main_volume, selected_backup_volume, validation,
                   verifier_vars, call, call_result, original_stats,
                   backup_stats, current_stats, verification_result, completed>>

\* DockerManager.__exit__ when the with block is left:
\* `if self.client: self.client.close()`
upgrade_exit ==
    /\ ContextLeft(wpc)
    /\ client = "open"
    /\ client' = "closed"
    /\ commands' = Append(commands, Command("client.close", ""))
    /\ UNCHANGED <<selected_main_volume, selected_backup_volume, validation,
                   verifier_vars, call, call_result, wpc, steps, werror,
                   original_stats, backup_stats, current_stats,
                   verification_result, completed>>

\* postgres.py:196, container = docker_mgr.find_container_by_service()
upgrade_find_container_by_service ==
    /\ AtStep("find_container_by_service")
    /\ \/ \E e \in FindErrors : Raised("find_container_by_service", e)
       \/ Returned("find_container_by_service")
    /\ UNCHANGED <<selected_main_volume, selected_backup_volume, validation,
                   verifier_vars, manager_vars, commands, original_stats, backup_stats,
                   current_stats, verification_result, completed>>

\* get_database_statistics: the container lookup, the table-count query, whose
\* failure raises, and the row and size queries, whose failures do not.  The
\* workflow passes the container it holds; the method declares no such
\* parameter and looks the container up itself, which is what is modelled.
upgrade_get_database_statistics ==
    \E n \in {"get_database_statistics:original", "get_database_statistics:current"} :
       /\ AtStep(n)
       /\ \/ /\ \E e \in FindErrors : Raised(n, e)
             /\ UNCHANGED <<commands, original_stats, current_stats>>
          \/ /\ Raised(n, "TableCountFailed")
             /\ commands' = Append(commands, Command("psql statistics", "failed"))
             /\ UNCHANGED <<original_stats, current_stats>>
          \/ /\ Returned(n)
             /\ commands' = Append(commands, Command("psql statistics", "ok"))
             /\ \E s \in DatabaseStats :
                   IF n = "get_database_statistics:original"
                   THEN original_stats' = s /\ UNCHANGED current_stats
                   ELSE current_stats' = s /\ UNCHANGED original_stats
       /\ UNCHANGED <<selected_main_volume, selected_backup_volume, validation,
                      verifier_vars, manager_vars, backup_stats, verification_result, completed>>

\* create_postgres_backup: the configuration guard, the container lookup and
\* pg_dump, whose non-zero exit code raises
upgrade_create_postgres_backup ==
    /\ AtStep("create_postgres_backup")
    /\ LET e == ConfigurationGuard(selected_main_volume, selected_backup_volume)
       IN  IF e # "none"
           THEN Raised("create_postgres_backup", e) /\ UNCHANGED commands
           ELSE \/ /\ \E f \in FindErrors : Raised("create_postgres_backup", f)
                   /\ UNCHANGED commands
                \/ \E exit_code \in ExitCodes :
                      /\ commands' = Append(commands, Command("pg_dump", exit_code))
                      /\ IF exit_code # 0
                         THEN Raised("create_postgres_backup", "PgDumpFailed")
                         ELSE Returned("create_postgres_backup")
    /\ UNCHANGED <<selected_main_volume, selected_backup_volume, validation,
                   verifier_vars, manager_vars, original_stats, backup_stats, current_stats,
                   verification_result, completed>>

\* verify_backup_integrity: stat, the empty-file check, head, the dump header
\* and the CREATE TABLE count, which is 0 when grep fails
upgrade_verify_backup_integrity ==
    /\ AtStep("verify_backup_integrity")
    /\ \/ /\ \E e \in FindErrors \cup {"BackupNotFound", "BackupEmpty",
                                       "HeaderUnreadable", "InvalidDump"} :
                Raised("verify_backup_integrity", e)
          /\ UNCHANGED backup_stats
       \/ /\ Returned("verify_backup_integrity")
          /\ \E b \in BackupStats : backup_stats' = b
    /\ UNCHANGED <<selected_main_volume, selected_backup_volume, validation,
                   verifier_vars, manager_vars, commands, original_stats, current_stats,
                   verification_result, completed>>

\* a lifecycle call that runs one docker compose command and raises when the
\* command fails
ComposeCallRetrying(n, c, e) ==
    /\ \/ /\ commands' = commands \o <<Command(c, "failed"), Command(c, "failed")>>
          /\ Raised(n, e)
       \/ /\ commands' = commands \o <<Command(c, "failed"), Command(c, "ok")>>
          /\ Returned(n)
       \/ /\ commands' = Append(commands, Command(c, "ok"))
          /\ Returned(n)
    /\ UNCHANGED <<selected_main_volume, selected_backup_volume, validation,
                   verifier_vars, manager_vars, original_stats, backup_stats, current_stats,
                   verification_result, completed>>

\* the body of stop, remove, update and build: subprocess.run of the command
\* with check=True, a CalledProcessError re-raised as Exception
ComposeCall(n, c, e) ==
    /\ \/ /\ commands' = Append(commands, Command(c, "failed"))
          /\ Raised(n, e)
       \/ /\ commands' = Append(commands, Command(c, "ok"))
          /\ Returned(n)
    /\ UNCHANGED <<selected_main_volume, selected_backup_volume, validation,
                   verifier_vars, manager_vars, original_stats, backup_stats, current_stats,
                   verification_result, completed>>

ComposeStep(n, c, e) ==
    /\ AtStep(n)
    /\ ComposeCall(n, c, e)

upgrade_stop_service_container ==
    ComposeStep("stop_service_container", "compose stop", "StopFailed")

upgrade_remove_service_container ==
    ComposeStep("remove_service_container", "compose rm", "RemoveFailed")

upgrade_update_service_container ==
    ComposeStep("update_service_container", "compose pull", "PullFailed")

upgrade_build_service_container ==
    ComposeStep("build_service_container", "compose build", "BuildFailed")

\* `docker volume rm <name>` and whether it succeeded
VolumeRm(name, status) == [cmd |-> "volume rm", arg |-> name, status |-> status]

\* remove_service_main_volume: its two guards, then `docker volume rm` with the
\* main volume's resolved name
RemoveServiceMainVolume(n) ==
    /\ LET e == RemoveMainVolumeGuard(selected_main_volume, selected_backup_volume)
       IN  IF e # "none"
           THEN Raised(n, e) /\ UNCHANGED commands
           ELSE \/ /\ commands' = Append(commands,
                          VolumeRm(VolumeToRemove(selected_main_volume), "ok"))
                   /\ Returned(n)
                \/ /\ commands' = Append(commands,
                          VolumeRm(VolumeToRemove(selected_main_volume), "failed"))
                   /\ Raised(n, "VolumeRemoveFailed")
    /\ UNCHANGED <<validation, verifier_vars, manager_vars, original_stats, backup_stats,
                   current_stats, verification_result, completed>>

upgrade_remove_service_main_volume ==
    /\ AtStep("remove_service_main_volume")
    /\ RemoveServiceMainVolume("remove_service_main_volume")
    /\ UNCHANGED <<selected_main_volume, selected_backup_volume>>

\* start_service_container: `docker compose up -d`, the container lookup and
\* check_container_status, whose result is assigned to `_`
StartServiceContainer(n) ==
    /\ \/ /\ commands' = Append(commands, Command("compose up", "failed"))
          /\ Raised(n, "UpFailed")
       \/ /\ commands' = Append(commands, Command("compose up", "ok"))
          /\ IF client = "None"
             THEN Raised(n, "NotInitialized")
             ELSE \E e \in FindErrors : Raised(n, e)
       \/ /\ client # "None"
          /\ \E status_ok \in {"true", "false"} :
                /\ commands' = commands \o
                       << Command("compose up", "ok"),
                          Command("check_container_status", status_ok) >>
                /\ Returned(n)
    /\ UNCHANGED <<selected_main_volume, selected_backup_volume, validation,
                   verifier_vars, manager_vars, original_stats, backup_stats, current_stats,
                   verification_result, completed>>

upgrade_start_service_container ==
    /\ AtStep("start_service_container")
    /\ StartServiceContainer("start_service_container")

\* verify_backup_volume_mounted(container=container) as _import_workflow calls
\* it; the attempts are those of SpecMount, here only the outcome is kept
upgrade_verify_backup_volume_mounted ==
    /\ AtStep("verify_backup_volume_mounted")
    /\ LET e == ConfigurationGuard(selected_main_volume, selected_backup_volume)
           no_path == (CHOOSE b \in selected_backup_volume : TRUE).path = <<>>
           n == "verify_backup_volume_mounted"
       IN  IF e # "none"
           THEN Raised(n, e) /\ UNCHANGED commands
           ELSE IF no_path
           THEN Raised(n, "BackupDirectoryNotFound") /\ UNCHANGED commands
           ELSE \E outcome \in MountOutcomes :
                   /\ commands' = commands \o
                          (IF outcome = "healthy_after_restart"
                           THEN << Command("compose stop", "ok"),
                                   Command("compose up", "ok") >>
                           ELSE IF outcome = "StopFailed"
                           THEN << Command("compose stop", "failed") >>
                           ELSE IF outcome = "UpFailed"
                           THEN << Command("compose stop", "ok"),
                                   Command("compose up", "failed") >>
                           ELSE << >>)
                          \o << Command("verify mount", outcome) >>
                   /\ IF outcome \in {"healthy_first_attempt", "healthy_after_retry",
                                      "healthy_after_restart"}
                      THEN Returned(n)
                      ELSE Raised(n, outcome)
    /\ UNCHANGED <<selected_main_volume, selected_backup_volume, validation,
                   verifier_vars, manager_vars, original_stats, backup_stats, current_stats,
                   verification_result, completed>>

\* import_data_from_backup: the configuration guard, the container lookup, the
\* health check and the psql restore
upgrade_import_data_from_backup ==
    /\ AtStep("import_data_from_backup")
    /\ LET e == ConfigurationGuard(selected_main_volume, selected_backup_volume)
           n == "import_data_from_backup"
       IN  IF e # "none"
           THEN Raised(n, e) /\ UNCHANGED commands
           ELSE \/ /\ \E f \in FindErrors : Raised(n, f)
                   /\ UNCHANGED commands
                \/ \E status_ok \in {"true", "false"} :
                      IF ~StatusAllowsImport(status_ok)
                      THEN /\ commands' = Append(commands,
                                   Command("check_container_status", status_ok))
                           /\ Raised(n, "ContainerNotHealthy")
                      ELSE \E exit_code \in ExitCodes :
                              /\ commands' = commands \o
                                     << Command("check_container_status", status_ok),
                                        Command("psql restore", exit_code) >>
                              /\ IF exit_code # 0
                                 THEN Raised(n, "ImportFailed")
                                 ELSE Returned(n)
    /\ UNCHANGED <<selected_main_volume, selected_backup_volume, validation,
                   verifier_vars, manager_vars, original_stats, backup_stats, current_stats,
                   verification_result, completed>>

UpdateCollationVersionNonFatal ==
    /\ AtStep("update_collation_version")
    /\ \/ /\ \E f \in FindErrors : Raised("update_collation_version", f)
          /\ UNCHANGED commands
       \/ \E exit_code \in ExitCodes :
             /\ commands' = Append(commands, Command("psql collation", exit_code))
             /\ Returned("update_collation_version")
    /\ UNCHANGED <<selected_main_volume, selected_backup_volume, validation,
                   verifier_vars, manager_vars, original_stats, backup_stats, current_stats,
                   verification_result, completed>>

\* update_collation_version: the container lookup and the ALTER DATABASE
upgrade_update_collation_version ==
    /\ AtStep("update_collation_version")
    /\ \/ /\ \E f \in FindErrors : Raised("update_collation_version", f)
          /\ UNCHANGED commands
       \/ \E exit_code \in ExitCodes :
             /\ commands' = Append(commands, Command("psql collation", exit_code))
             /\ IF exit_code # 0
                THEN Raised("update_collation_version", "CollationFailed")
                ELSE Returned("update_collation_version")
    /\ UNCHANGED <<selected_main_volume, selected_backup_volume, validation,
                   verifier_vars, manager_vars, original_stats, backup_stats, current_stats,
                   verification_result, completed>>

\* postgres.py:167-178: _verify_upgrade_success, the display of its result,
\* then the exception on failure or the completed message
upgrade_verify_upgrade_success ==
    /\ AtStep("_verify_upgrade_success")
    /\ LET r == _verify_upgrade_success(original_stats, current_stats, backup_stats)
       IN  /\ verification_result' = r
           /\ IF VerificationIsFatal(r.success)
              THEN /\ Raised("_verify_upgrade_success", "UpgradeVerificationFailed")
                   /\ completed' = FALSE
              ELSE /\ Returned("_verify_upgrade_success")
                   /\ completed' = TRUE
    /\ UNCHANGED <<selected_main_volume, selected_backup_volume, validation,
                   verifier_vars, manager_vars, commands, original_stats, backup_stats,
                   current_stats>>

NextUpgrade ==
    \/ upgrade_is_configured_for_postgres_upgrade
    \/ upgrade_enter
    \/ upgrade_exit
    \/ upgrade_find_container_by_service
    \/ upgrade_get_database_statistics
    \/ upgrade_create_postgres_backup
    \/ upgrade_verify_backup_integrity
    \/ upgrade_stop_service_container
    \/ upgrade_remove_service_container
    \/ upgrade_update_service_container
    \/ upgrade_build_service_container
    \/ upgrade_remove_service_main_volume
    \/ upgrade_start_service_container
    \/ upgrade_verify_backup_volume_mounted
    \/ upgrade_import_data_from_backup
    \/ upgrade_update_collation_version
    \/ upgrade_verify_upgrade_success

SpecUpgrade == InitUpgrade /\ [][NextUpgrade]_vars

\* every call of the workflow returns or raises, so the workflow keeps stepping
\* _import_workflow_with_container as handle_import_command calls it: the
\* selection has passed is_configured_for_postgres_upgrade (postgres.py:90)
\* and the manager's context is entered
InitImport ==
    /\ \E c \in UpgradeConfigs :
          /\ selected_main_volume = c[1]
          /\ selected_backup_volume = c[2]
          /\ is_configured_for_postgres_upgrade(c[1], c[2]) = "true"
    /\ validation = "true"
    /\ VerifierIdle
    /\ wpc = ImportBase + 1
    /\ steps = <<>>
    /\ commands = <<>>
    /\ werror = "none"
    /\ original_stats = NoValue
    /\ backup_stats = NoValue
    /\ current_stats = NoValue
    /\ verification_result = NoValue
    /\ completed = FALSE
    /\ client = "open"
    /\ call = NoValue
    /\ call_result = NoValue

\* the upgrade command or the import workflow
SpecWorkflows == (InitUpgrade \/ InitImport) /\ [][NextUpgrade]_vars

SpecUpgradeLive == SpecUpgrade /\ WF_vars(NextUpgrade)

-----------------------------------------------------------------------------
(* Specification of direct calls of remove_service_main_volume *)

\* docker_manager.remove_service_main_volume() on the current selection
remove_service_main_volume ==
    /\ steps = <<>>
    /\ wpc = 0
    /\ RemoveServiceMainVolume("remove_service_main_volume")
    /\ UNCHANGED <<selected_main_volume, selected_backup_volume>>

NextRemoveVolume ==
    \/ select_volumes
    \/ assign_selected_main_volume
    \/ assign_selected_backup_volume
    \/ remove_service_main_volume

SpecRemoveVolume == InitValidate /\ [][NextRemoveVolume]_vars

\* ---------------------------------------------------------------------------
\* The lifecycle operations called directly on a DockerManager, outside the
\* upgrade workflow: any of them, in any order, inside or outside the context
\* manager
\* ---------------------------------------------------------------------------

\* how many lifecycle calls one behaviour makes
MaxCalls == 2

InitManager ==
    /\ \E c \in UpgradeConfigs :
          /\ selected_main_volume = c[1]
          /\ selected_backup_volume = c[2]
    /\ validation = "none"
    /\ VerifierIdle
    /\ WorkflowIdle

DirectCall == wpc = 0 /\ Len(steps) < MaxCalls

\* DockerManager.__enter__, entered at most once in a behaviour
manager_enter ==
    /\ wpc = 0
    /\ client = "None"
    /\ \A i \in DOMAIN commands : commands[i].cmd # "docker.from_env"
    /\ \/ /\ commands' = Append(commands, Command("docker.from_env", "failed"))
          /\ client' = client
       \/ /\ commands' = Append(commands, Command("docker.from_env", "ok"))
          /\ client' = "open"
    /\ UNCHANGED <<selected_main_volume, selected_backup_volume, validation,
                   verifier_vars, call, call_result, wpc, steps, werror,
                   original_stats, backup_stats, current_stats,
                   verification_result, completed>>

\* DockerManager.__exit__
manager_exit ==
    /\ wpc = 0
    /\ client = "open"
    /\ client' = "closed"
    /\ commands' = Append(commands, Command("client.close", ""))
    /\ UNCHANGED <<selected_main_volume, selected_backup_volume, validation,
                   verifier_vars, call, call_result, wpc, steps, werror,
                   original_stats, backup_stats, current_stats,
                   verification_result, completed>>

manager_stop_service_container ==
    /\ DirectCall
    /\ ComposeCall("stop_service_container", "compose stop", "StopFailed")

manager_remove_service_container ==
    /\ DirectCall
    /\ ComposeCall("remove_service_container", "compose rm", "RemoveFailed")

manager_update_service_container ==
    /\ DirectCall
    /\ ComposeCall("update_service_container", "compose pull", "PullFailed")

manager_build_service_container ==
    /\ DirectCall
    /\ ComposeCall("build_service_container", "compose build", "BuildFailed")

manager_remove_service_main_volume ==
    /\ DirectCall
    /\ RemoveServiceMainVolume("remove_service_main_volume")
    /\ UNCHANGED <<selected_main_volume, selected_backup_volume>>

manager_start_service_container ==
    /\ DirectCall
    /\ StartServiceContainer("start_service_container")

NextManager ==
    \/ manager_enter
    \/ manager_exit
    \/ manager_stop_service_container
    \/ manager_remove_service_container
    \/ manager_update_service_container
    \/ manager_build_service_container
    \/ manager_remove_service_main_volume
    \/ manager_start_service_container

SpecManager == InitManager /\ [][NextManager]_vars

-----------------------------------------------------------------------------
(* Specification of single calls: a function is called once with arguments  *)
(* drawn from bounded sets; `call` keeps the arguments, `call_result` what  *)
(* the call returned or raised                                              *)

MaxContainers == 2

\* the containers the Docker daemon can list
\* self.client: None before __enter__, the client docker.from_env() returned
\* inside the context, and that same object, closed, once __exit__ has run
\* (__exit__ closes the client and leaves the attribute set)
ClientStates == {"None", "open", "closed"}

ContainerIds == {"c1", "c2", "c3"}

\* the results of client.containers.list(filters=...): lists without repetition
ContainerLists ==
    {l \in UNION {[1..n -> ContainerIds] : n \in 0..MaxContainers} :
        \A i, j \in DOMAIN l : i # j => l[i] # l[j]}

FindContainerFirstMatch(cl, containers) ==
    IF cl = "None" THEN [kind |-> "raised", error |-> "NotInitialized"]
    ELSE IF Len(containers) = 0
    THEN [kind |-> "raised", error |-> "NoContainers"]
    ELSE [kind |-> "returned", value |-> containers[1]]

\* DockerManager.find_container_by_service, given self.client and the list
\* the daemon returns for the label filter
find_container_by_service(cl, containers) ==
    IF cl = "None" THEN [kind |-> "raised", error |-> "NotInitialized"]
    ELSE IF Len(containers) = 0
    THEN [kind |-> "raised", error |-> "NoContainers"]
    ELSE IF Len(containers) > 1
    THEN [kind |-> "raised", error |-> "MultipleContainers"]
    ELSE [kind |-> "returned", value |-> containers[1]]

\* what one poll of check_container_status can read: State.Health.Status, with
\* "unhealthy" for a missing key, or the exception of container.reload()
PollOutcomes == {"healthy", "unhealthy", "starting", "reload_error"}

\* the polls a call can make: at least one, at most timeout // sleep
MaxPolls == IF MaxTimeout > 1 THEN MaxTimeout ELSE 1

RECURSIVE CheckContainerStatusNoFallbackFrom(_, _, _, _)
CheckContainerStatusNoFallbackFrom(tries, statuses, pg_isready_exit, limit) ==
    IF statuses[tries] = "reload_error"
    THEN [kind |-> "raised", error |-> "ReloadFailed", polls |-> tries, pg_isready |-> 0]
    ELSE IF statuses[tries] = "healthy"
    THEN [kind |-> "returned", value |-> TRUE, polls |-> tries, pg_isready |-> 0]
    ELSE IF tries >= limit
    THEN [kind |-> "returned", value |-> FALSE, polls |-> tries, pg_isready |-> 0]
    ELSE CheckContainerStatusNoFallbackFrom(tries + 1, statuses, pg_isready_exit, limit)

\* the `while True` loop of check_container_status from its poll number
\* `tries` on: reload and read the status, break when healthy, fall back to
\* pg_isready when tries >= timeout // sleep, else sleep and poll again
RECURSIVE CheckContainerStatusFrom(_, _, _, _)
CheckContainerStatusFrom(tries, statuses, pg_isready_exit, limit) ==
    IF statuses[tries] = "reload_error"
    THEN [kind |-> "raised", error |-> "ReloadFailed", polls |-> tries, pg_isready |-> 0]
    ELSE IF statuses[tries] = "healthy"
    THEN [kind |-> "returned", value |-> TRUE, polls |-> tries, pg_isready |-> 0]
    ELSE IF tries >= limit
    THEN [kind |-> "returned", value |-> (pg_isready_exit = 0), polls |-> tries,
          pg_isready |-> 1]
    ELSE CheckContainerStatusFrom(tries + 1, statuses, pg_isready_exit, limit)

CheckContainerStatusNoFallback(statuses, pg_isready_exit, s, t) ==
    CheckContainerStatusNoFallbackFrom(1, statuses, pg_isready_exit, t \div s)

CheckContainerStatusEagerFallback(statuses, pg_isready_exit, s, t) ==
    CheckContainerStatusFrom(1, statuses, pg_isready_exit, 1)

\* DockerManager.check_container_status(container, sleep=s, timeout=t), given
\* what the successive polls read and the exit code of pg_isready
check_container_status(statuses, pg_isready_exit, s, t) ==
    CheckContainerStatusFrom(1, statuses, pg_isready_exit, t \div s)

\* a mount entry of the compose configuration: its type, its source (""
\* when missing) and its target (<<>> when missing)
VolumeConfigs == [type : {"volume", "bind"}, source : {"", "database"},
                  target : {<<>>, PG_DATA}]

\* what the volumes section holds for the source: nothing, an entry without
\* name, an entry whose name is null, or an entry with a name
VolumeMappings ==
    {[entry |-> "missing"], [entry |-> "unnamed"], [entry |-> "null"]}
        \cup {[entry |-> "named", name |-> n] : n \in ResolvedNames}

\* VolumeMount.from_string(volume_config, volume_mappings)
from_string(volume_config, mapping) ==
    IF volume_config.type = "volume"
    THEN IF volume_config.source = "" \/ volume_config.target = <<>>
         THEN [kind |-> "raised", error |-> "InvalidVolumeConfig"]
         ELSE IF mapping.entry \in {"missing", "null"}
         THEN [kind |-> "raised", error |-> "CouldNotResolveVolumeName"]
         ELSE [kind |-> "returned",
               value |-> [name |-> volume_config.source,
                          path |-> volume_config.target,
                          resolved_name |->
                              IF mapping.entry = "unnamed"
                              THEN volume_config.source ELSE mapping.name]]
    ELSE [kind |-> "raised", error |-> "NonVolumeMount"]

\* what a failing pg_dump can print
Outputs == {"", "pg_dump: error"}

BackupFileName == "backup-<date>.sql"

\* the selections a single call is made with: those of the workflow and one
\* with only the main volume selected
CallConfigs ==
    UpgradeConfigs \cup
    { <<{[name |-> "database", path |-> PG_DATA, resolved_name |-> "test_database"]},
        None>> }

\* the result of a call that raised e after doing `ran`
RaisedAfter(e, ran) == [kind |-> "raised", error |-> e, ran |-> ran]

\* the exception find_container_by_service raised, as its caller passes it on
LookupFailed(cl, containers) ==
    RaisedAfter(find_container_by_service(cl, containers).error, <<"containers.list">>)

CreatePostgresBackupIgnoringExitCode(cl, main, backup, containers, exit_code, output) ==
    IF cl = "None" THEN RaisedAfter("NotInitialized", <<>>)
    ELSE IF ConfigurationGuard(main, backup) # "none"
    THEN RaisedAfter(ConfigurationGuard(main, backup), <<>>)
    ELSE IF find_container_by_service(cl, containers).kind = "raised"
    THEN LookupFailed(cl, containers)
    ELSE [kind |-> "returned",
          value |-> (CHOOSE b \in backup : TRUE).path \o <<Slash, BackupFileName>>,
          ran |-> <<"containers.list", "pg_dump">>]

CreatePostgresBackupLookupFirst(cl, main, backup, containers, exit_code, output) ==
    IF cl = "None" THEN RaisedAfter("NotInitialized", <<>>)
    ELSE IF find_container_by_service(cl, containers).kind = "raised"
    THEN LookupFailed(cl, containers)
    ELSE IF ConfigurationGuard(main, backup) # "none"
    THEN RaisedAfter(ConfigurationGuard(main, backup), <<"containers.list">>)
    ELSE IF exit_code # 0
    THEN [kind |-> "raised", error |-> "PgDumpFailed", exit_code |-> exit_code,
          output |-> output, ran |-> <<"containers.list", "pg_dump">>]
    ELSE [kind |-> "returned",
          value |-> (CHOOSE b \in backup : TRUE).path \o <<Slash, BackupFileName>>,
          ran |-> <<"containers.list", "pg_dump">>]

\* DockerManager.create_postgres_backup, given self.client, the selection,
\* the containers the daemon lists, and pg_dump's exit code and output; `ran`
\* lists the lookups and commands the call made
create_postgres_backup(cl, main, backup, containers, exit_code, output) ==
    IF cl = "None" THEN RaisedAfter("NotInitialized", <<>>)
    ELSE IF ConfigurationGuard(main, backup) # "none"
    THEN RaisedAfter(ConfigurationGuard(main, backup), <<>>)
    ELSE IF find_container_by_service(cl, containers).kind = "raised"
    THEN LookupFailed(cl, containers)
    ELSE IF exit_code # 0
    THEN [kind |-> "raised", error |-> "PgDumpFailed", exit_code |-> exit_code,
          output |-> output, ran |-> <<"containers.list", "pg_dump">>]
    ELSE [kind |-> "returned",
          value |-> (CHOOSE b \in backup : TRUE).path \o <<Slash, BackupFileName>>,
          ran |-> <<"containers.list", "pg_dump">>]

\* what check_container_status gives its caller: its result or the exception
\* of container.reload()
StatusResults == {"true", "false", "reload_error"}

\* DockerManager.import_data_from_backup, given self.client, the selection,
\* the containers the daemon lists, the outcome of check_container_status and
\* the exit code of psql
import_data_from_backup(cl, main, backup, containers, status_ok, exit_code) ==
    IF cl = "None" THEN RaisedAfter("NotInitialized", <<>>)
    ELSE IF ConfigurationGuard(main, backup) # "none"
    THEN RaisedAfter(ConfigurationGuard(main, backup), <<>>)
    ELSE IF find_container_by_service(cl, containers).kind = "raised"
    THEN LookupFailed(cl, containers)
    ELSE IF status_ok = "reload_error"
    THEN RaisedAfter("ReloadFailed", <<"containers.list", "check_container_status">>)
    ELSE IF ~StatusAllowsImport(status_ok)
    THEN RaisedAfter("ContainerNotHealthy",
                     <<"containers.list", "check_container_status">>)
    ELSE IF exit_code # 0
    THEN RaisedAfter("ImportFailed",
                     <<"containers.list", "check_container_status", "psql">>)
    ELSE [kind |-> "returned", value |-> "None",
          ran |-> <<"containers.list", "check_container_status", "psql">>]

\* DockerManager.verify_backup_volume_mounted(container), given the selection
\* and how its retry loop ends: the two configuration guards, then the loop
VerifyBackupVolumeMounted(main, backup, outcome) ==
    IF ConfigurationGuard(main, backup) # "none"
    THEN RaisedAfter(ConfigurationGuard(main, backup), <<>>)
    ELSE IF (CHOOSE b \in backup : TRUE).path = <<>>
    THEN RaisedAfter("BackupDirectoryNotFound", <<>>)
    ELSE IF outcome \in {"healthy_first_attempt", "healthy_after_retry",
                         "healthy_after_restart"}
    THEN [kind |-> "returned", value |-> "None",
          ran |-> <<"container.reload", "ls">>]
    ELSE RaisedAfter(outcome, <<"container.reload", "ls">>)

GetDatabaseStatisticsRowFailureFatal(cl, containers, table_exit, table_count, row_exit, rows, size_exit) ==
    IF cl = "None" THEN RaisedAfter("NotInitialized", <<>>)
    ELSE IF find_container_by_service(cl, containers).kind = "raised"
    THEN LookupFailed(cl, containers)
    ELSE IF table_exit # 0
    THEN RaisedAfter("TableCountFailed", <<"containers.list", "psql table count">>)
    ELSE IF row_exit # 0
    THEN RaisedAfter("RowEstimateFailed",
                     <<"containers.list", "psql table count", "psql row estimate">>)
    ELSE [kind |-> "returned",
          value |-> [table_count |-> table_count,
                     estimated_total_rows |-> rows,
                     database_size |-> IF size_exit = 0 THEN "8 MB" ELSE "unknown"],
          ran |-> <<"containers.list", "psql table count", "psql row estimate",
                    "psql database size">>]

\* DockerManager.get_database_statistics, given self.client, the containers
\* the daemon lists, and for each of its three queries the exit code and what
\* a successful query prints
get_database_statistics(cl, containers, table_exit, table_count, row_exit, rows, size_exit) ==
    IF cl = "None" THEN RaisedAfter("NotInitialized", <<>>)
    ELSE IF find_container_by_service(cl, containers).kind = "raised"
    THEN LookupFailed(cl, containers)
    ELSE IF table_exit # 0
    THEN RaisedAfter("TableCountFailed", <<"containers.list", "psql table count">>)
    ELSE [kind |-> "returned",
          value |-> [table_count |-> table_count,
                     estimated_total_rows |-> IF row_exit = 0 THEN rows ELSE 0,
                     database_size |-> IF size_exit = 0 THEN "8 MB" ELSE "unknown"],
          ran |-> <<"containers.list", "psql table count", "psql row estimate",
                    "psql database size">>]

\* the first lines of a dump file as head prints them
Headers == {"PostgreSQL database dump", ""}

VerifyBackupIntegrityChecks(cl, containers, stat_exit, file_size, head_exit, header, grep_exit, tables) ==
    IF find_container_by_service(cl, containers).kind = "raised"
    THEN LookupFailed(cl, containers)
    ELSE IF stat_exit # 0
    THEN RaisedAfter("BackupNotFound", <<"containers.list", "stat">>)
    ELSE IF file_size = 0
    THEN RaisedAfter("BackupEmpty", <<"containers.list", "stat">>)
    ELSE IF head_exit # 0
    THEN RaisedAfter("HeaderUnreadable", <<"containers.list", "stat", "head">>)
    ELSE IF header # "PostgreSQL database dump"
    THEN RaisedAfter("InvalidDump", <<"containers.list", "stat", "head">>)
    ELSE [kind |-> "returned",
          value |-> [file_size_bytes |-> file_size,
                     estimated_table_count |-> IF grep_exit = 0 THEN tables ELSE 0],
          ran |-> <<"containers.list", "stat", "head", "grep">>]

\* DockerManager.verify_backup_integrity, given self.client, the containers
\* the daemon lists, and the exit codes and outputs of stat, head and grep
verify_backup_integrity(cl, containers, stat_exit, file_size, head_exit, header, grep_exit, tables) ==
    IF cl = "None" THEN RaisedAfter("NotInitialized", <<>>)
    ELSE VerifyBackupIntegrityChecks(cl, containers, stat_exit, file_size,
                                        head_exit, header, grep_exit, tables)

InitCalls == InitValidate

call_find_container_by_service ==
    /\ call = NoValue
    /\ \E cl \in ClientStates, containers \in ContainerLists :
          /\ call' = [fn |-> "find_container_by_service", client |-> cl,
                      containers |-> containers]
          /\ call_result' = find_container_by_service(cl, containers)
    /\ UNCHANGED <<selected_main_volume, selected_backup_volume, validation,
                   verifier_vars, wpc, steps, commands, werror, original_stats,
                   backup_stats, current_stats, verification_result, completed,
                   client>>

call_check_container_status ==
    /\ call = NoValue
    /\ \E statuses \in [1..MaxPolls -> PollOutcomes], pg_isready_exit \in ExitCodes,
          s \in 1..MaxSleep, t \in 0..MaxTimeout :
          /\ call' = [fn |-> "check_container_status", statuses |-> statuses,
                      pg_isready_exit |-> pg_isready_exit, sleep |-> s,
                      timeout |-> t]
          /\ call_result' = check_container_status(statuses, pg_isready_exit, s, t)
    /\ UNCHANGED <<selected_main_volume, selected_backup_volume, validation,
                   verifier_vars, wpc, steps, commands, werror, original_stats,
                   backup_stats, current_stats, verification_result, completed,
                   client>>

call_from_string ==
    /\ call = NoValue
    /\ \E volume_config \in VolumeConfigs, mapping \in VolumeMappings :
          /\ call' = [fn |-> "from_string", volume_config |-> volume_config,
                      mapping |-> mapping]
          /\ call_result' = from_string(volume_config, mapping)
    /\ UNCHANGED <<selected_main_volume, selected_backup_volume, validation,
                   verifier_vars, wpc, steps, commands, werror, original_stats,
                   backup_stats, current_stats, verification_result, completed,
                   client>>

call_create_postgres_backup ==
    /\ call = NoValue
    /\ \E cl \in ClientStates, c \in CallConfigs,
          containers \in ContainerLists, exit_code \in ExitCodes,
          output \in Outputs :
          /\ call' = [fn |-> "create_postgres_backup", client |-> cl,
                      main |-> c[1], backup |-> c[2], containers |-> containers,
                      exit_code |-> exit_code, output |-> output]
          /\ call_result' = create_postgres_backup(cl, c[1], c[2], containers,
                                                   exit_code, output)
    /\ UNCHANGED <<selected_main_volume, selected_backup_volume, validation,
                   verifier_vars, wpc, steps, commands, werror, original_stats,
                   backup_stats, current_stats, verification_result, completed,
                   client>>

call_import_data_from_backup ==
    /\ call = NoValue
    /\ \E cl \in ClientStates, c \in CallConfigs,
          containers \in ContainerLists, status_ok \in StatusResults,
          exit_code \in ExitCodes :
          /\ call' = [fn |-> "import_data_from_backup", client |-> cl,
                      main |-> c[1], backup |-> c[2], containers |-> containers,
                      status_ok |-> status_ok, exit_code |-> exit_code]
          /\ call_result' = import_data_from_backup(cl, c[1], c[2], containers,
                                                    status_ok, exit_code)
    /\ UNCHANGED <<selected_main_volume, selected_backup_volume, validation,
                   verifier_vars, wpc, steps, commands, werror, original_stats,
                   backup_stats, current_stats, verification_result, completed,
                   client>>

call_verify_backup_volume_mounted ==
    /\ call = NoValue
    /\ \E c \in CallConfigs \cup MountConfigs, outcome \in MountOutcomes :
          /\ call' = [fn |-> "verify_backup_volume_mounted",
                      main |-> c[1], backup |-> c[2], outcome |-> outcome]
          /\ call_result' = VerifyBackupVolumeMounted(c[1], c[2], outcome)
    /\ UNCHANGED <<selected_main_volume, selected_backup_volume, validation,
                   verifier_vars, wpc, steps, commands, werror, original_stats,
                   backup_stats, current_stats, verification_result, completed,
                   client>>

call_get_database_statistics ==
    /\ call = NoValue
    /\ \E cl \in ClientStates, containers \in ContainerLists,
          table_exit \in ExitCodes, table_count \in 0..MaxTables,
          row_exit \in ExitCodes, rows \in 0..MaxRows, size_exit \in ExitCodes :
          /\ call' = [fn |-> "get_database_statistics", client |-> cl,
                      containers |-> containers, table_exit |-> table_exit,
                      table_count |-> table_count, row_exit |-> row_exit,
                      rows |-> rows, size_exit |-> size_exit]
          /\ call_result' = get_database_statistics(cl, containers, table_exit,
                                 table_count, row_exit, rows, size_exit)
    /\ UNCHANGED <<selected_main_volume, selected_backup_volume, validation,
                   verifier_vars, wpc, steps, commands, werror, original_stats,
                   backup_stats, current_stats, verification_result, completed,
                   client>>

\* postgres.py:166-169: the statistics just collected are the current ones of
\* _verify_upgrade_success, against the original and the backup statistics
call_verify_upgrade_success ==
    /\ call # NoValue
    /\ call.fn = "get_database_statistics"
    /\ call_result.kind = "returned"
    /\ verification_result = NoValue
    /\ \E original \in DatabaseStats, backup \in BackupStats :
          /\ original_stats' = original
          /\ backup_stats' = backup
          /\ current_stats' = call_result.value
          /\ verification_result' =
                _verify_upgrade_success(original, call_result.value, backup)
    /\ UNCHANGED <<selected_main_volume, selected_backup_volume, validation,
                   verifier_vars, wpc, steps, commands, werror, completed,
                   client, call, call_result>>

call_verify_backup_integrity ==
    /\ call = NoValue
    /\ \E cl \in ClientStates, containers \in ContainerLists,
          stat_exit \in ExitCodes, file_size \in {0} \cup BackupSizes,
          head_exit \in ExitCodes, header \in Headers,
          grep_exit \in ExitCodes, tables \in 0..MaxTables :
          /\ call' = [fn |-> "verify_backup_integrity", client |-> cl,
                      containers |-> containers, stat_exit |-> stat_exit,
                      file_size |-> file_size, head_exit |-> head_exit,
                      header |-> header, grep_exit |-> grep_exit,
                      tables |-> tables]
          /\ call_result' = verify_backup_integrity(cl, containers, stat_exit,
                                 file_size, head_exit, header, grep_exit, tables)
    /\ UNCHANGED <<selected_main_volume, selected_backup_volume, validation,
                   verifier_vars, wpc, steps, commands, werror, original_stats,
                   backup_stats, current_stats, verification_result, completed,
                   client>>

NextCalls ==
    \/ call_find_container_by_service
    \/ call_check_container_status
    \/ call_from_string
    \/ call_create_postgres_backup
    \/ call_import_data_from_backup
    \/ call_verify_backup_volume_mounted
    \/ call_get_database_statistics
    \/ call_verify_upgrade_success
    \/ call_verify_backup_integrity

SpecCalls == InitCalls /\ [][NextCalls]_vars

-----------------------------------------------------------------------------
(* Properties of the volume-selection validation, under SpecValidate *)

Validated == validation # "none"

BothSelected == selected_main_volume # None /\ selected_backup_volume # None

MainVolume == CHOOSE v \in selected_main_volume : TRUE

BackupVolume == CHOOSE v \in selected_backup_volume : TRUE

\* the backup path is /var/lib/postgresql/data, possibly with trailing slashes
BackupIsDataDirectory ==
    \E k \in 0..(2 * MaxTrailingSlashes + 2) :
        BackupVolume.path = PG_DATA \o Slashes(k)

\* C8 as stated: whenever the backup path equals /var/lib/postgresql/data the
\* validation raises the 'default PostgreSQL data directory' error, whatever
\* the other fields are (same volume name, main volume not selected).
C8_DataDirAlwaysRaises ==
    (Validated /\ selected_backup_volume # None /\ BackupVolume.path = PG_DATA)
        => validation = "raise"

\* C8 amended: when both volumes are selected under different names and the
\* backup path is /var/lib/postgresql/data (trailing slashes ignored) the
\* validation raises, whatever the main path is; when a volume is not
\* selected or both have the same name it returns False without raising.
C8_DataDirRaisesWhenNamesDiffer ==
    (Validated /\ selected_backup_volume # None /\ BackupIsDataDirectory)
        => IF selected_main_volume # None /\ MainVolume.name # BackupVolume.name
           THEN validation = "raise"
           ELSE validation = "false"

C8_Witness ==
    /\ validation = "raise"
    /\ BothSelected
    /\ MainVolume.path = PG_HOME
    /\ BackupVolume.path = PG_DATA \o <<Slash>>

\* C9 as stated: for every path p, (main = p, backup = p + "/x") fails and
\* (main = p + "/x", backup = p) succeeds.
C9_NestedFailsParentSucceeds ==
    (Validated /\ BothSelected /\ MainVolume.name # BackupVolume.name)
        => /\ BackupVolume.path = MainVolume.path \o ChildX => validation = "false"
           /\ MainVolume.path = BackupVolume.path \o ChildX => validation = "true"

\* C9 amended: for every path p, (main = p, backup = p + "/x") under different
\* volume names fails (returns False); (main = p + "/x", backup = p) succeeds
\* unless p is /var/lib/postgresql/data (trailing slashes ignored), in which
\* case the validation raises the data-directory error.
C9_NestedFailsParentSucceedsUnlessDataDir ==
    (Validated /\ BothSelected /\ MainVolume.name # BackupVolume.name)
        => /\ BackupVolume.path = MainVolume.path \o ChildX => validation = "false"
           /\ MainVolume.path = BackupVolume.path \o ChildX
                => validation = (IF BackupIsDataDirectory THEN "raise" ELSE "true")

C9_Witness ==
    /\ validation = "true"
    /\ BothSelected
    /\ BackupVolume.path = PG_HOME \o <<Slash>>
    /\ MainVolume.path = BackupVolume.path \o ChildX

\* C10: when the main and the backup volume have the same name the validation
\* fails (returns False, never True and never an exception), also when their
\* container paths differ.
C10_SameNameFails ==
    (Validated /\ BothSelected /\ MainVolume.name = BackupVolume.name)
        => validation = "false"

C10_Witness ==
    /\ validation = "false"
    /\ BothSelected
    /\ MainVolume.name = BackupVolume.name
    /\ MainVolume.path = PG_DATA
    /\ BackupVolume.path = BACKUPS

\* The selected volume with j more '/' characters at the end of its path
WithTrailingSlashes(v, j) == [v EXCEPT !.path = @ \o Slashes(j)]

\* C11: the outcome of the validation does not change when trailing '/'
\* characters are appended to the main path, to the backup path or to both:
\* the selection with the longer paths gets the outcome the validation gave.
C11_TrailingSlashesIgnored ==
    (Validated /\ BothSelected) =>
        \A j \in 0..(MaxTrailingSlashes + 1), k \in 0..(MaxTrailingSlashes + 1) :
            is_configured_for_postgres_upgrade(
                {WithTrailingSlashes(MainVolume, j)},
                {WithTrailingSlashes(BackupVolume, k)}) = validation

C11_Witness ==
    /\ validation = "true"
    /\ BothSelected
    /\ MainVolume.path = PG_DATA \o <<Slash>>
    /\ BackupVolume.path = BACKUPS \o <<Slash>>

-----------------------------------------------------------------------------
(* Properties of verify_backup_volume_mounted, under SpecMount *)

Terminated == pc \in {"returned", "raised"}

\* the call passed its configuration guards and reached the retry loop
LoopReached ==
    /\ pc # "idle"
    /\ error \notin {"DataDirectoryAsBackup", "NotConfigured",
                     "BackupDirectoryNotFound"}

\* attempts whose try block did not find the volume healthy
FailedCheckEvents == {"check_unhealthy", "check_error", "reload_failed"}

\* calls made on the container handle by the try block of an attempt
CheckEvents == FailedCheckEvents \cup {"check_healthy"}

RemediationEvents == {"reconnect_ok", "reconnect_failed"}

NeverHealthy == \A i \in DOMAIN log : log[i].ev # "check_healthy"

Count(evs) == Cardinality({i \in DOMAIN log : log[i].ev \in evs})

\* C1: the call returns normally only if one of its health checks found the
\* volume healthy, and for every maxAttempts >= 0 a call whose checks are all
\* unhealthy ends with the 'Backup volume failed to mount properly' error.
C1_ReturnsOnlyAfterHealthyCheck ==
    /\ pc = "returned" => ~NeverHealthy
    /\ (Terminated /\ LoopReached /\ NeverHealthy)
          => (pc = "raised" /\ error = "BackupVolumeFailedToMount")

\* C2: when every health check fails, the call makes maxAttempts - 1 sleep
\* calls, ends with the 'Backup volume failed to mount properly' error, and
\* does not sleep after the final attempt.
C2_SleepsAreMaxAttemptsMinusOne ==
    (Terminated /\ LoopReached /\ NeverHealthy)
        => /\ sleep_calls = (timeout \div sleep) - 1
           /\ error = "BackupVolumeFailedToMount"
           /\ \A i \in DOMAIN log :
                 log[i].ev = "sleep" => log[i].attempt # (timeout \div sleep) - 1

\* C3 as stated: when the volume stays unhealthy, remediation is triggered
\* exactly once per call, at the attempt whose index is maxAttempts // 2.
C3_RemediationExactlyOnce ==
    /\ \A i \in DOMAIN log :
          log[i].ev \in RemediationEvents
              => log[i].attempt = (timeout \div sleep) \div 2
    /\ (Terminated /\ LoopReached /\ NeverHealthy)
          => Count(RemediationEvents) = 1

\* C3 amended: remediation is triggered at most once per call and only at the
\* attempt whose index is maxAttempts // 2, a number fixed by (sleep, timeout);
\* when the volume stays unhealthy and maxAttempts >= 1 it is triggered exactly
\* once, and with maxAttempts = 0 it is not triggered at all.
C3_RemediationOnceAtHalfway ==
    /\ \A i \in DOMAIN log :
          log[i].ev \in RemediationEvents
              => log[i].attempt = (timeout \div sleep) \div 2
    /\ Count(RemediationEvents) <= 1
    /\ (Terminated /\ LoopReached /\ NeverHealthy)
          => Count(RemediationEvents) = (IF timeout >= sleep THEN 1 ELSE 0)

C3_Witness ==
    /\ pc = "raised"
    /\ error = "BackupVolumeFailedToMount"
    /\ timeout \div sleep = 5
    /\ \E i \in DOMAIN log :
          log[i].ev \in RemediationEvents /\ log[i].attempt = 2

\* C4: when the reconnect at the halfway attempt throws, or completes but the
\* next health check is still unhealthy, the verifier escalates to a restart
\* of the service container: it issues the stop and, the stop done, the up.
C4_EscalatesToRestart ==
    Terminated =>
        \A i \in DOMAIN log :
            (\/ log[i].ev = "reconnect_failed"
             \/ /\ log[i].ev = "reconnect_ok"
                /\ \E j \in DOMAIN log : j > i /\ log[j].ev = "check_unhealthy")
            => \E j \in DOMAIN log :
                  /\ i < j
                  /\ log[j].ev \in {"stop", "stop_failed"}
                  /\ log[j].ev = "stop"
                        => \E k \in DOMAIN log :
                              j < k /\ log[k].ev \in {"up", "up_failed"}

\* C5: after a restart inside the call, every later reload and health check
\* of the call is made on the handle start_service_container returned, never
\* on the handle the caller passed in.
C5_ChecksUseRestartedContainer ==
    \A i, j \in DOMAIN log :
        (i < j /\ log[i].ev = "up" /\ log[j].ev \in CheckEvents)
            => log[j].handle = RestartedHandle

C5_Witness ==
    \E i, j \in DOMAIN log :
        /\ i < j
        /\ log[i].ev = "up"
        /\ log[j].ev \in CheckEvents
        /\ log[j].handle = RestartedHandle

\* C6: a health check that reports healthy ends the call with a normal
\* return: no sleep, reconnect, restart or further check follows it.
C6_HealthyReturnsImmediately ==
    \A i \in DOMAIN log :
        log[i].ev = "check_healthy"
            => (i = Len(log) /\ pc = "returned" /\ error = "none")

C6_Witness ==
    /\ pc = "returned"
    /\ Len(log) > 2
    /\ log[Len(log)].ev = "check_healthy"
    /\ log[Len(log) - 1].ev = "sleep"

\* C7: a completed health check is healthy if and only if the backup volume's
\* container path is the Destination of an entry of the mount list and the
\* directory listing exited with code 0.
C7_HealthyIffMountedAndListable ==
    check_result \in {"healthy", "unhealthy"}
        => (check_result = "healthy"
              <=> (BackupVolume.path \in mounts /\ ls_exit_code = 0))

C7_Witness ==
    /\ check_result = "unhealthy"
    /\ BackupVolume.path \in mounts
    /\ ls_exit_code # 0

\* the events of a restart: the stop and the up, failed or not
ExceptionEvents == {"reload_failed", "check_error"}

\* C38: an exception of container.reload() or of the health check is handled
\* as an unhealthy result of its attempt: the call goes on to the halfway
\* branch or to the tail of the loop body as after an unhealthy check, the
\* exception is never the error the call ends with, and a later check is
\* made under the next attempt number.
C38_CheckExceptionSwallowed ==
    /\ [][(pc = "check" /\ check_result' \in {"reload_error", "exec_error"}) =>
             /\ pc' \in {"reconnect", "tail"}
             /\ pc' = "reconnect" <=> attempt = max_retries \div 2
             /\ error' = error
             /\ attempt' = attempt]_vars
    /\ [](error \in {"none", "DataDirectoryAsBackup", "NotConfigured",
                     "BackupDirectoryNotFound", "BackupVolumeFailedToMount",
                     "StopFailed", "UpFailed", "NoContainers",
                     "MultipleContainers"})
    /\ [](\A i, j \in DOMAIN log :
            (/\ i < j
             /\ log[i].ev \in ExceptionEvents
             /\ log[j].ev \in CheckEvents) =>
               /\ log[j].attempt > log[i].attempt
               /\ \E k \in (i + 1)..j :
                     /\ log[k].ev \in CheckEvents
                     /\ log[k].attempt = log[i].attempt + 1)

\* a reload that failed, a health check that raised on the next attempt, and
\* a healthy volume in the end
C38_Witness ==
    /\ pc = "returned"
    /\ \E i, j \in DOMAIN log :
          /\ i < j
          /\ log[i].ev = "reload_failed"
          /\ log[j].ev = "check_error"
          /\ log[j].attempt = log[i].attempt + 1
    /\ log[Len(log)].ev = "check_healthy"

StopEvents == {"stop", "stop_failed"}

UpEvents == {"up", "up_failed"}

\* C28: a restart whose stop or up fails does not end the call with the
\* restart's error: the verifier goes on and, the volume never healthy, ends
\* with 'Backup volume failed to mount properly'.
C28_RestartFailureNotPropagated ==
    (Terminated /\ NeverHealthy /\ Count({"stop_failed", "up_failed"}) > 0)
        => (pc = "raised" /\ error = "BackupVolumeFailedToMount")

\* C29: per call there is at most one reconnect and at most one restart; the
\* restart happens at the halfway attempt, directly after the reconnect of the
\* same attempt failed, and its up follows its stop.
C29_ReconnectBeforeRestartOnce ==
    /\ Count(RemediationEvents) <= 1
    /\ Count(StopEvents) <= 1
    /\ Count(UpEvents) <= 1
    /\ \A i \in DOMAIN log :
          log[i].ev \in StopEvents =>
              /\ log[i].attempt = (timeout \div sleep) \div 2
              /\ i > 1
              /\ log[i - 1].ev = "reconnect_failed"
              /\ log[i - 1].attempt = log[i].attempt
    /\ \A i \in DOMAIN log :
          log[i].ev \in UpEvents => (i > 1 /\ log[i - 1].ev = "stop")

C29_Witness ==
    /\ Terminated
    /\ timeout \div sleep = 5
    /\ \E i \in DOMAIN log : log[i].ev = "up" /\ log[i].attempt = 2
    /\ \E i \in DOMAIN log : log[i].ev = "reconnect_failed" /\ log[i].attempt = 2

\* C30: a call never makes more than timeout // sleep attempts, hence health
\* checks, and it always ends, by return or by exception.
C30_BoundedAttemptsAndTermination ==
    /\ [](pc # "idle" => Count(CheckEvents) <= timeout \div sleep)
    /\ <>Terminated

C30_Witness ==
    /\ Terminated
    /\ timeout \div sleep = 5
    /\ Count(CheckEvents) = 5

-----------------------------------------------------------------------------
(* Properties of the upgrade workflow, under SpecUpgrade *)

\* the steps of the workflow as the specification lists them
ClaimedOrder ==
    << "get_database_statistics:original", "create_postgres_backup",
       "verify_backup_integrity", "stop_service_container",
       "remove_service_container", "update_service_container",
       "build_service_container", "remove_service_main_volume",
       "start_service_container", "verify_backup_volume_mounted",
       "import_data_from_backup", "get_database_statistics:current",
       "_verify_upgrade_success" >>

IsClaimedStep(s) == \E i \in DOMAIN ClaimedOrder : ClaimedOrder[i] = s.name

StepReturned(n) ==
    \E i \in DOMAIN steps : steps[i].name = n /\ steps[i].result = "returned"

StepRan(n) == \E i \in DOMAIN steps : steps[i].name = n

CommandRan(c) == \E i \in DOMAIN commands : commands[i].cmd = c

\* C12: the listed steps run in the listed order, a step runs only when every
\* step before it returned, and after a step that raised no further step runs.
C12_StepsInOrderAndGated ==
    /\ \A i \in DOMAIN steps : i < Len(steps) => steps[i].result = "returned"
    /\ LET ran == SelectSeq(steps, IsClaimedStep)
       IN  /\ Len(ran) <= Len(ClaimedOrder)
           /\ \A i \in DOMAIN ran : ran[i].name = ClaimedOrder[i]
    /\ werror # "none" => (steps # <<>> /\ steps[Len(steps)].result = "raised")

C12_Witness ==
    /\ Len(SelectSeq(steps, IsClaimedStep)) = Len(ClaimedOrder)
    /\ \A i \in DOMAIN steps : steps[i].result = "returned"
    /\ completed

\* the errors of the configuration: no valid selection, or a main volume
\* without resolved name
ConfigurationErrors == {"NotConfigured", "DataDirectoryAsBackup", "MainVolumeUnresolved"}

DestructiveCommands == {"compose stop", "compose rm", "volume rm"}

\* C13: when the workflow ends with a configuration error, none of compose
\* stop, compose rm and docker volume rm has been invoked.
C13_ConfigurationErrorsBeforeDestruction ==
    werror \in ConfigurationErrors =>
        \A i \in DOMAIN commands : commands[i].cmd \notin DestructiveCommands

\* the premises of the end-to-end scenario: pg_dump exited with 0, every
\* lifecycle step returned, the mount was healthy at the first attempt, the
\* restore exited with 0 and both statistics are the same
EndToEndPremises ==
    /\ \E i \in DOMAIN commands :
          commands[i].cmd = "pg_dump" /\ commands[i].arg = 0
    /\ \A n \in {"stop_service_container", "remove_service_container",
                 "update_service_container", "build_service_container",
                 "remove_service_main_volume", "start_service_container"} :
          StepReturned(n)
    /\ \E i \in DOMAIN commands :
          /\ commands[i].cmd = "verify mount"
          /\ commands[i].arg = "healthy_first_attempt"
    /\ \E i \in DOMAIN commands :
          commands[i].cmd = "psql restore" /\ commands[i].arg = 0
    /\ original_stats # NoValue
    /\ current_stats = original_stats
    /\ verification_result # NoValue

UpgradeSucceeded ==
    /\ verification_result.success = TRUE
    /\ werror = "none"
    /\ completed

Occurrences(w, x) == Cardinality({i \in DOMAIN w : w[i] = x})

One(condition) == IF condition THEN 1 ELSE 0

\* C16: the warning list holds exactly one warning for each of the five rules
\* whose condition holds and nothing else, and success is true exactly when
\* the list is empty.
C16_RulesIndependent ==
    verification_result # NoValue =>
        LET w == verification_result.warnings
            before == original_stats
            after == current_stats
            backup == backup_stats
        IN  /\ Occurrences(w, "NoTables") = One(after.table_count = 0)
            /\ Occurrences(w, "TableCountMismatch") =
                   One(\/ before.table_count - after.table_count > 1
                       \/ after.table_count - before.table_count > 1)
            /\ Occurrences(w, "BackupWithoutTables") =
                   One(before.table_count > 0 /\ backup.estimated_table_count = 0)
            /\ Occurrences(w, "BackupTooSmall") =
                   One(before.table_count > 0 /\ backup.file_size_bytes < 1000)
            /\ Occurrences(w, "NoRows") =
                   One(after.estimated_total_rows = 0
                       /\ before.estimated_total_rows > 0)
            /\ Len(w) = Occurrences(w, "NoTables")
                        + Occurrences(w, "TableCountMismatch")
                        + Occurrences(w, "BackupWithoutTables")
                        + Occurrences(w, "BackupTooSmall")
                        + Occurrences(w, "NoRows")
            /\ verification_result.success = (w = <<>>)

C16_Witness ==
    /\ verification_result # NoValue
    /\ Len(verification_result.warnings) = 5
    /\ verification_result.success = FALSE

\* C17: the table-count-mismatch warning is produced exactly when the original
\* and the restored table count differ by more than 1.
C17_ToleranceOfOne ==
    verification_result # NoValue =>
        ( Occurrences(verification_result.warnings, "TableCountMismatch") > 0
          <=> ( \/ original_stats.table_count - current_stats.table_count > 1
                \/ current_stats.table_count - original_stats.table_count > 1 ) )

C17_Witness ==
    /\ verification_result # NoValue
    /\ original_stats.table_count = current_stats.table_count + 1
    /\ Occurrences(verification_result.warnings, "TableCountMismatch") = 0

\* C18: the verifier always returns a result; when its success is false the
\* workflow ends with the upgrade-verification-failed error and the completed
\* message is not printed.
C18_VerificationFailureIsFatal ==
    /\ StepRan("_verify_upgrade_success") => verification_result # NoValue
    /\ (verification_result # NoValue /\ verification_result.success = FALSE)
          => (werror = "UpgradeVerificationFailed" /\ ~completed)
    /\ werror = "UpgradeVerificationFailed"
          => (verification_result # NoValue /\ verification_result.success = FALSE)

C18_Witness ==
    /\ verification_result # NoValue
    /\ verification_result.success = FALSE
    /\ verification_result.warnings # <<>>
    /\ werror = "UpgradeVerificationFailed"

\* the health checks made by import_data_from_backup: those after the mount
\* verification
ImportHealthChecks ==
    {i \in DOMAIN commands :
        /\ commands[i].cmd = "check_container_status"
        /\ \E j \in 1..(i - 1) : commands[j].cmd = "verify mount"}

\* C19: the psql restore runs only directly after a health check that returned
\* true; after a health check that returned false the import raises
\* 'Container is not healthy' and no restore command runs.
C19_RestoreOnlyWhenHealthy ==
    /\ \A i \in DOMAIN commands :
          commands[i].cmd = "psql restore" =>
              (i - 1 \in ImportHealthChecks /\ commands[i - 1].arg = "true")
    /\ \A i \in ImportHealthChecks :
          commands[i].arg = "false" =>
              (werror = "ContainerNotHealthy" /\ ~CommandRan("psql restore"))

C19_Witness ==
    /\ \E i \in ImportHealthChecks : commands[i].arg = "false"
    /\ werror = "ContainerNotHealthy"
    /\ ~CommandRan("psql restore")

\* the health checks made by start_service_container: those directly after
\* `docker compose up -d`
StartHealthChecks ==
    {i \in DOMAIN commands :
        /\ commands[i].cmd = "check_container_status"
        /\ i > 1
        /\ commands[i - 1].cmd = "compose up"}

\* C20: start_service_container does not return a container whose health check
\* returned false.
C20_StartReturnsOnlyHealthy ==
    StepReturned("start_service_container") =>
        \A i \in StartHealthChecks : commands[i].arg = "true"

ClientCloses == {i \in DOMAIN commands : commands[i].cmd = "client.close"}

\* C23: the client is acquired when the context is entered, every call made
\* on the manager inside the context finds it open, and once acquired it is
\* closed, exactly once and only when the context has been left, whether the
\* run completed or a step raised.
C23_ClientReleasedOnce ==
    /\ [](StepReturned("__enter__") <=> client # "None")
    /\ [](Cardinality(ClientCloses) = (IF client = "closed" THEN 1 ELSE 0))
    /\ []((wpc \in DOMAIN UpgradeOrder /\ StepReturned("__enter__"))
              => client = "open")
    /\ [](client = "closed" => (wpc = 0 \/ wpc = Len(UpgradeOrder) + 1))
    /\ (client = "open") ~> (client = "closed")

C23_Witness ==
    /\ client = "closed"
    /\ werror = "ImportFailed"
    /\ Cardinality(ClientCloses) = 1

\* the main volume has been removed
MainVolumeRemoved ==
    /\ StepReturned("remove_service_main_volume")
    /\ CommandRan("volume rm")

-----------------------------------------------------------------------------
(* Properties of remove_service_main_volume, under SpecRemoveVolume *)

VolumeRemovals == {i \in DOMAIN commands : commands[i].cmd = "volume rm"}

SelectionValid ==
    is_configured_for_postgres_upgrade(selected_main_volume,
                                       selected_backup_volume) = "true"

\* C14: docker volume rm is invoked only for a valid selection whose main
\* volume has a non-empty resolved name, and with that name; a call on any
\* other selection raises and removes nothing.
C14_RemovesOnlyResolvedMainVolume ==
    /\ \A i \in VolumeRemovals :
          /\ SelectionValid
          /\ MainVolume.resolved_name # ""
          /\ commands[i].arg = MainVolume.resolved_name
    /\ (steps # <<>> /\ ~(SelectionValid /\ MainVolume.resolved_name # ""))
          => (steps[1].result = "raised" /\ VolumeRemovals = {})

C14_Witness ==
    /\ BothSelected
    /\ MainVolume.name = "database"
    /\ MainVolume.resolved_name = "test_database"
    /\ BackupVolume.resolved_name = "test_backups"
    /\ Len(commands) = 1
    /\ commands[1].cmd = "volume rm"
    /\ commands[1].arg = "test_database"
    /\ steps # <<>>
    /\ steps[1].result = "returned"

-----------------------------------------------------------------------------
(* Properties of single calls, under SpecCalls *)

Called(fn) == call # NoValue /\ call.fn = fn

ReturnedValue(v) == call_result.kind = "returned" /\ call_result.value = v

\* the number of polls check_container_status has for its arguments
PollLimit == IF call.timeout \div call.sleep > 1
             THEN call.timeout \div call.sleep ELSE 1

\* poll i is made and reads 'healthy': no earlier poll ended the call
HealthyReadAt(i) ==
    /\ call.statuses[i] = "healthy"
    /\ \A j \in 1..(i - 1) : call.statuses[j] \in {"unhealthy", "starting"}

\* every poll is made and none reads 'healthy'
PollsExhausted ==
    \A i \in 1..PollLimit : call.statuses[i] \in {"unhealthy", "starting"}

\* C21: check_container_status returns true exactly when a poll read
\* 'healthy' or, the polls exhausted, pg_isready exited with 0; when neither
\* holds after all polls it returns false and does not raise.
C21_HealthResult ==
    Called("check_container_status") =>
        /\ ReturnedValue(TRUE) <=>
              \/ \E i \in 1..PollLimit : HealthyReadAt(i)
              \/ PollsExhausted /\ call.pg_isready_exit = 0
        /\ (PollsExhausted /\ call.pg_isready_exit # 0) => ReturnedValue(FALSE)

C21_Witness ==
    /\ Called("check_container_status")
    /\ call.timeout \div call.sleep = 3
    /\ PollsExhausted
    /\ call.pg_isready_exit = 0
    /\ ReturnedValue(TRUE)

\* C31: check_container_status runs pg_isready at most once per call, and
\* only when the polls made have reached timeout // sleep and none of them
\* read 'healthy'; it makes at most max(1, timeout // sleep) polls and then
\* ends, by returning or raising.
C31_FallbackOnceAfterPolls ==
    Called("check_container_status") =>
        /\ call_result.kind \in {"returned", "raised"}
        /\ call_result.pg_isready \in {0, 1}
        /\ call_result.pg_isready = 1 =>
              /\ call_result.polls >= call.timeout \div call.sleep
              /\ \A i \in 1..call_result.polls :
                    call.statuses[i] \in {"unhealthy", "starting"}
        /\ call_result.polls \in 1..PollLimit

C31_Witness ==
    /\ Called("check_container_status")
    /\ call.timeout \div call.sleep = 2
    /\ call.statuses[1] = "starting"
    /\ call.statuses[2] = "unhealthy"
    /\ call.pg_isready_exit # 0
    /\ call_result.pg_isready = 1
    /\ call_result.polls = 2
    /\ ReturnedValue(FALSE)

\* C22: with no matching container the lookup fails with the not-found
\* error, with several with the multiple-containers error, and with exactly
\* one it returns that container.
C22_ExactlyOneContainer ==
    (Called("find_container_by_service") /\ call.client = "open") =>
        /\ Len(call.containers) = 0 =>
              (call_result.kind = "raised" /\ call_result.error = "NoContainers")
        /\ Len(call.containers) > 1 =>
              (call_result.kind = "raised" /\ call_result.error = "MultipleContainers")
        /\ Len(call.containers) = 1 => ReturnedValue(call.containers[1])

C22_Witness ==
    /\ Called("find_container_by_service")
    /\ call.client = "open"
    /\ Len(call.containers) = 2
    /\ call_result.kind = "raised"
    /\ call_result.error = "MultipleContainers"

\* C26: create_postgres_backup returns a path, one below the backup volume's
\* container path, only when pg_dump exited with 0; a non-zero exit code
\* never returns a path, and the pg_dump error carries the exit code and the
\* output of the command.
C26_BackupPathOnlyOnExitZero ==
    Called("create_postgres_backup") =>
        /\ call_result.kind = "returned" =>
              /\ call.exit_code = 0
              /\ StartsWith(call_result.value,
                            (CHOOSE b \in call.backup : TRUE).path \o <<Slash>>)
        /\ call.exit_code # 0 => call_result.kind = "raised"
        /\ (call_result.kind = "raised" /\ call_result.error = "PgDumpFailed") =>
              /\ call_result.exit_code = call.exit_code
              /\ call_result.output = call.output
              /\ call.exit_code # 0

C26_Witness ==
    /\ Called("create_postgres_backup")
    /\ call.exit_code = 1
    /\ call.output = "pg_dump: error"
    /\ call_result.kind = "raised"
    /\ call_result.error = "PgDumpFailed"
    /\ call_result.exit_code = 1

\* the call was made with a selection is_configured_for_postgres_upgrade does
\* not accept: a volume not selected, one volume selected twice, the backup
\* nested in the main volume or placed at the PostgreSQL data directory
SelectionRejected ==
    is_configured_for_postgres_upgrade(call.main, call.backup) # "true"

\* the call needs the client and has it
InsideContext == Called("verify_backup_volume_mounted") \/ call.client = "open"

GuardedCall ==
    \/ Called("create_postgres_backup")
    \/ Called("import_data_from_backup")
    \/ Called("verify_backup_volume_mounted")

\* C34 as stated: create_postgres_backup, import_data_from_backup and
\* verify_backup_volume_mounted report a selection that is invalid or
\* incomplete with 'Service must have selected volumes for PostgreSQL
\* upgrade', before any container lookup or command.
C34_SelectionErrorFirst ==
    (GuardedCall /\ InsideContext /\ SelectionRejected) =>
        /\ call_result.kind = "raised"
        /\ call_result.error = "NotConfigured"
        /\ call_result.ran = <<>>

\* C34 amended: inside a context, the three calls report a rejected selection
\* before any container lookup or command, whatever the daemon would list:
\* with 'Service must have selected volumes' when the validation returns
\* False, and with the validation's own data-directory error when the backup
\* path is the PostgreSQL data directory.
C34_ValidationErrorFirst ==
    (GuardedCall /\ InsideContext /\ SelectionRejected) =>
        /\ call_result.kind = "raised"
        /\ call_result.ran = <<>>
        /\ call_result.error =
              IF is_configured_for_postgres_upgrade(call.main, call.backup) = "raise"
              THEN "DataDirectoryAsBackup"
              ELSE "NotConfigured"

\* the backup volume is not selected and no container matches
C34_Witness ==
    /\ Called("create_postgres_backup")
    /\ call.client = "open"
    /\ call.main # None
    /\ call.backup = None
    /\ call.containers = <<>>
    /\ call_result.kind = "raised"
    /\ call_result.error = "NotConfigured"

HasWarning(w) ==
    \E i \in DOMAIN verification_result.warnings :
       verification_result.warnings[i] = w

ClientCall ==
    \/ Called("create_postgres_backup")
    \/ Called("import_data_from_backup")
    \/ Called("find_container_by_service")
    \/ Called("verify_backup_integrity")
    \/ Called("get_database_statistics")

Rejected == call_result.kind = "raised" /\ call_result.error = "NotInitialized"

\* C39: a client-using operation is rejected with the 'not properly
\* initialized' error exactly when the manager is not inside an active
\* context: before __enter__ and after __exit__ has closed the client.
C39_RejectedOutsideContext ==
    ClientCall => (Rejected <=> call.client # "open")

\* C27: a VolumeMount that parsing returns has a non-empty resolved name, and
\* a mount whose type is not 'volume' is rejected with an error.
C27_ParsedMountsAreResolved ==
    Called("from_string") =>
        /\ call_result.kind = "returned" => call_result.value.resolved_name # ""
        /\ call.volume_config.type # "volume" => call_result.kind = "raised"


\* ---------------------------------------------------------------------------
\* Further claims about the upgrade workflow (SpecUpgrade)
\* ---------------------------------------------------------------------------

\* C32: the collation version is refreshed only after the integrity
\* verification has passed, so a run whose verification fails has not run the
\* ALTER DATABASE ... REFRESH COLLATION VERSION statement.
C32_CollationAfterVerification ==
    /\ CommandRan("psql collation") => StepReturned("_verify_upgrade_success")
    /\ werror = "UpgradeVerificationFailed" => ~CommandRan("psql collation")

\* C36: docker volume rm is invoked only after, in the same run, pg_dump
\* exited 0 and verify_backup_integrity returned its statistics of a
\* non-empty backup file; when pg_dump or the integrity check fails, the
\* volume is never removed.
C36_VolumeRemovedOnlyAfterVerifiedBackup ==
    /\ \A i \in DOMAIN commands :
          commands[i].cmd = "volume rm" =>
             /\ \E j \in 1..(i - 1) :
                   commands[j].cmd = "pg_dump" /\ commands[j].arg = 0
             /\ StepReturned("verify_backup_integrity")
             /\ backup_stats # NoValue
             /\ backup_stats.file_size_bytes > 0
    /\ \A k \in DOMAIN steps :
          (/\ steps[k].name \in {"create_postgres_backup", "verify_backup_integrity"}
           /\ steps[k].result = "raised") => ~CommandRan("volume rm")

\* the volume is removed after a verified backup of one byte
C36_Witness ==
    /\ CommandRan("volume rm")
    /\ StepReturned("remove_service_main_volume")
    /\ StepReturned("verify_backup_integrity")
    /\ backup_stats.file_size_bytes = 1
    /\ current_stats = NoValue

\* C37: in a run that passed the validation, the name given to docker volume
\* rm is not the resolved name of the backup volume.
C37_BackupVolumeNotRemoved ==
    \A i \in DOMAIN commands :
       commands[i].cmd = "volume rm" =>
          commands[i].arg # BackupVolume.resolved_name

ImportWorkflowRun == steps # <<>> /\ steps[1].name = "verify_backup_volume_mounted"

LifecycleCommands ==
    { <<"stop_service_container", "compose stop">>,
      <<"remove_service_container", "compose rm">>,
      <<"update_service_container", "compose pull">>,
      <<"build_service_container", "compose build">>,
      <<"remove_service_main_volume", "volume rm">>,
      <<"start_service_container", "compose up">> }

CallsOf(n) == LET IsCall(e) == e.name = n IN SelectSeq(steps, IsCall)

CommandsOf(c) == LET IsCommand(e) == e.cmd = c IN SelectSeq(commands, IsCommand)

\* the command returned non-zero
NonZero(command) ==
    IF command.cmd = "volume rm"
    THEN command.status = "failed"
    ELSE command.arg = "failed"

\* the k-th call of the operation ran the k-th invocation of its command, and
\* raised when that invocation returned non-zero
OncePerCall(n, c) ==
    /\ Len(CommandsOf(c)) = Len(CallsOf(n))
    /\ \A k \in 1..Len(CommandsOf(c)) :
          NonZero(CommandsOf(c)[k]) => CallsOf(n)[k].result = "raised"

\* the guards of remove_service_main_volume let the call reach its command
MainVolumeRemovable ==
    /\ selected_main_volume # None
    /\ selected_backup_volume # None
    /\ LET main == CHOOSE v \in selected_main_volume : TRUE
           backup == CHOOSE v \in selected_backup_volume : TRUE
       IN  /\ is_configured_for_postgres_upgrade(
                  selected_main_volume, selected_backup_volume) = "true"
           /\ main.resolved_name # ""

\* C25 as stated: every lifecycle operation (stop, remove, pull, build,
\* removeMainVolume, up) invokes its external command exactly once per call
\* and fails, without a retry, when the command returns non-zero
C25_CommandExactlyOncePerCall ==
    \A p \in LifecycleCommands : OncePerCall(p[1], p[2])

\* C25 amended: stop, remove, pull, build and up invoke their command exactly
\* once per call; removeMainVolume invokes `docker volume rm` exactly once per
\* call when the selection is valid and the main volume has a resolved name,
\* and not at all otherwise (the call raises before the command); a command
\* that returns non-zero makes its call raise, and is never run again
C25_CommandOncePerCallUnlessRejected ==
    /\ \A p \in LifecycleCommands :
          p[1] # "remove_service_main_volume" => OncePerCall(p[1], p[2])
    /\ IF MainVolumeRemovable
       THEN OncePerCall("remove_service_main_volume", "volume rm")
       ELSE /\ CommandsOf("volume rm") = <<>>
            /\ \A k \in 1..Len(CallsOf("remove_service_main_volume")) :
                  CallsOf("remove_service_main_volume")[k].result = "raised"

\* the same operation was called twice, its command returned non-zero the
\* first time and ran again only for the second call
C25_Witness ==
    /\ Len(steps) = 2
    /\ steps[1] = [name |-> "stop_service_container", result |-> "raised"]
    /\ steps[2] = [name |-> "stop_service_container", result |-> "returned"]
    /\ Len(CommandsOf("compose stop")) = 2
    /\ CommandsOf("compose stop")[1].arg = "failed"

====
